---- MODULE Spec2Model ----
(***************************************************************************)
(* Anchoring and marking engine of the annotator: the DOM text mapper,     *)
(* the selector builders, the four-strategy resolver (Anchorer.anchor)     *)
(* and the highlighter, modelled over a small explicit DOM.                *)
(*                                                                         *)
(* Strings are sequences of one-character strings.  A DOM is a function    *)
(* from node ids to node records; node Top is the document body and node   *)
(* Root the annotatable root element.  A boundary point is (node, offset)  *)
(* as in the DOM standard, a Range is a pair of boundary points.           *)
(***************************************************************************)
EXTENDS Integers, Sequences, FiniteSets, TLC

----------------------------------------------------------------------------
(* Bounds of the model *)

\* number of document edits (one character inserted or deleted) between the
\* creation of an annotation and its resolution
MaxEdits == 1

\* the short prefix/suffix length offered beside the default of 32
ShortContext == 1

\* number of times the load loop resolves the stored annotation
MaxResolves == 2

\* number of highlightRange calls on one document
MaxMarks == 1

----------------------------------------------------------------------------
(* Strings *)

Min(a, b) == IF a <= b THEN a ELSE b
Max(a, b) == IF a >= b THEN a ELSE b
Abs(a) == IF a >= 0 THEN a ELSE 0 - a
SetMin(S) == CHOOSE x \in S : \A y \in S : x <= y
SetMax(S) == CHOOSE x \in S : \A y \in S : x >= y

\* the characters matched by the regular expression \s
WhiteSpace == {" ", "\n"}
IsSpace(c) == c \in WhiteSpace

\* String.prototype.slice(a, b) for a, b >= 0
Slice(s, a, b) ==
  LET lo == Min(Max(0, a), Len(s))
      hi == Min(Max(0, b), Len(s))
  IN  IF lo >= hi THEN << >> ELSE SubSeq(s, lo + 1, hi)

\* String.prototype.trim
Trim(s) ==
  LET ns == {i \in 1..Len(s) : ~IsSpace(s[i])}
  IN  IF ns = {} THEN << >> ELSE SubSeq(s, SetMin(ns), SetMax(ns))

StartsWith(s, p) == Len(p) <= Len(s) /\ SubSeq(s, 1, Len(p)) = p
EndsWith(s, p) == Len(p) <= Len(s) /\ SubSeq(s, Len(s) - Len(p) + 1, Len(s)) = p

\* String.prototype.indexOf(needle, from): 0-based index or -1
IndexOf(s, needle, from) ==
  LET f == Min(Max(0, from), Len(s))
      c == {i \in f..(Len(s) - Len(needle)) : SubSeq(s, i + 1, i + Len(needle)) = needle}
  IN  IF c = {} THEN -1 ELSE SetMin(c)

Occurs(s, needle) == IndexOf(s, needle, 0) >= 0

\* s.replace(/\s+/g, ' ').trim()
normalizeWhitespace(s) ==
  LET F[i \in 0..Len(s)] ==
        IF i = 0 THEN << >>
        ELSE IF IsSpace(s[i])
             THEN (IF i > 1 /\ IsSpace(s[i - 1]) THEN F[i - 1] ELSE Append(F[i - 1], " "))
             ELSE Append(F[i - 1], s[i])
  IN  Trim(F[Len(s)])

\* the span table of normalizedToOriginalOffsets: one span per character of
\* the normalized string (a whitespace run is one span), leading whitespace
\* skipped, a trailing whitespace run kept as a last span
NormSpans(original) ==
  LET n == Len(original)
      lead == {i \in 1..n : ~IsSpace(original[i])}
      first == IF lead = {} THEN n + 1 ELSE SetMin(lead)
      \* F[i]: spans pushed after reading original[first..i] (1-based)
      F[i \in 0..n] ==
        IF i < first THEN << >>
        ELSE IF IsSpace(original[i])
             THEN F[i - 1]
             ELSE IF i > first /\ IsSpace(original[i - 1])
                  THEN LET rs == SetMax({j \in first..(i - 1) : ~IsSpace(original[j])})
                       IN  F[i - 1] \o << [start |-> rs, end |-> i - 1] >>
                                    \o << [start |-> i - 1, end |-> i] >>
                  ELSE Append(F[i - 1], [start |-> i - 1, end |-> i])
      body == F[n]
      lastNs == IF lead = {} THEN 0 ELSE SetMax(lead)
  IN  IF lead # {} /\ lastNs < n
      THEN Append(body, [start |-> lastNs, end |-> n])
      ELSE body

NoOffsets == [start |-> -1, end |-> -1]

\* The offsets of the normalized string taken as offsets of the original.
normalizedOffsetsAsOriginal(original, normStart, normEnd) ==
  [start |-> normStart, end |-> normEnd]

normalizedToOriginalOffsets(original, normStart, normEnd) ==
  LET spans == NormSpans(original)
  IN  IF normStart >= Len(spans) THEN [start |-> 0, end |-> 0]
      ELSE LET startOriginal == spans[normStart + 1].start
               endIdx == Min(normEnd, Len(spans))
               endOriginal == IF endIdx > normStart THEN spans[endIdx].end ELSE startOriginal
           IN  [start |-> startOriginal, end |-> endOriginal]

----------------------------------------------------------------------------
(* The DOM *)

Top == 1      \* the document body
Root == 2     \* the annotatable root element handed to build / anchor / load

\* tags whose subtree the extractor skips (walkParsedText, walkDomTextNodes)
NonRendering == {"script", "style", "noscript"}

HIGHLIGHT_CLASS == "annotator-highlight"

El(tag, parent, kids) ==
  [kind |-> "el", tag |-> tag, parent |-> parent, kids |-> kids, data |-> << >>,
   cls |-> "", ann |-> 0]
Tx(parent, data) ==
  [kind |-> "text", tag |-> "#text", parent |-> parent, kids |-> << >>, data |-> data,
   cls |-> "", ann |-> 0]

IsText(d, n) == d[n].kind = "text"
IsEl(d, n) == d[n].kind = "el"
NodeLen(d, n) == Len(d[n].data)            \* Text.length
ChildCount(d, n) == Len(d[n].kids)         \* childNodes.length

\* 1-based position of n among its parent's children
ChildPos(d, n) == CHOOSE i \in 1..Len(d[d[n].parent].kids) : d[d[n].parent].kids[i] = n

RECURSIVE PathOf(_, _)
\* child indices (0-based) from the top of the tree down to n
PathOf(d, n) ==
  IF d[n].parent = 0 THEN << >>
  ELSE Append(PathOf(d, d[n].parent), ChildPos(d, n) - 1)

RECURSIVE IsAncestorOrSelf(_, _, _)
\* Node.contains: a is n or an ancestor of n
IsAncestorOrSelf(d, a, n) ==
  IF a = n THEN TRUE
  ELSE IF d[n].parent = 0 THEN FALSE
  ELSE IsAncestorOrSelf(d, a, d[n].parent)

Attached(d, n) == IsAncestorOrSelf(d, Top, n)

\* a boundary point (node, offset)
Bp(n, o) == [node |-> n, offset |-> o]

\* position key of a boundary point: comparing keys lexicographically, a
\* proper prefix first, is the DOM standard's boundary-point order
BpKey(d, p) == Append(PathOf(d, p.node), p.offset)

LexLess(a, b) ==
  \E i \in 1..(Len(b)) :
    /\ i <= Len(a) + 1
    /\ \A j \in 1..(i - 1) : a[j] = b[j]
    /\ (i = Len(a) + 1 \/ a[i] < b[i])

BpLess(d, p, q) == LexLess(BpKey(d, p), BpKey(d, q))
BpLeq(d, p, q) == ~BpLess(d, q, p)

\* Range.compareBoundaryPoints: -1, 0 or 1
BpCmp(d, p, q) == IF BpLess(d, p, q) THEN -1 ELSE IF BpLess(d, q, p) THEN 1 ELSE 0

\* a Range; NullRange stands for null
Rng(s, e) == [sc |-> s.node, so |-> s.offset, ec |-> e.node, eo |-> e.offset]
NullRange == [sc |-> 0, so |-> 0, ec |-> 0, eo |-> 0]
RStart(r) == Bp(r.sc, r.so)
REnd(r) == Bp(r.ec, r.eo)
Collapsed(r) == r.sc = r.ec /\ r.so = r.eo      \* Range.collapsed

RECURSIVE RootOf(_, _)
\* Node.getRootNode(): the top of the tree n is in (n itself when detached)
RootOf(d, n) == IF d[n].parent = 0 THEN n ELSE RootOf(d, d[n].parent)

\* createRange(); setStart(s); setEnd(e): an end before the start, or in
\* another tree than the start, moves the start to the end (the range
\* collapses there)
SetStartEnd(d, s, e) ==
  IF RootOf(d, s.node) # RootOf(d, e.node) \/ BpLess(d, e, s) THEN Rng(e, e) ELSE Rng(s, e)

RECURSIVE AllText(_, _)
RECURSIVE AllTextKids(_, _, _)
\* every Text node below n in document order, non-rendering subtrees included
AllText(d, n) ==
  IF IsText(d, n) THEN << n >> ELSE AllTextKids(d, d[n].kids, 1)
AllTextKids(d, kids, i) ==
  IF i > Len(kids) THEN << >> ELSE AllText(d, kids[i]) \o AllTextKids(d, kids, i + 1)

RECURSIVE ConcatData(_, _)
ConcatData(d, ns) == IF ns = << >> THEN << >> ELSE d[Head(ns)].data \o ConcatData(d, Tail(ns))

\* the part of text node t that lies inside range r, as offsets [lo, hi)
TextPart(d, t, r) ==
  LET lo == IF r.sc = t THEN Min(r.so, NodeLen(d, t))
            ELSE IF BpLess(d, RStart(r), Bp(t, 0)) THEN 0 ELSE NodeLen(d, t)
      hi == IF r.ec = t THEN Min(r.eo, NodeLen(d, t))
            ELSE IF BpLess(d, Bp(t, NodeLen(d, t)), REnd(r)) THEN NodeLen(d, t) ELSE 0
  IN  [lo |-> lo, hi |-> hi]

RECURSIVE RangeTextOver(_, _, _)
RangeTextOver(d, ts, r) ==
  IF ts = << >> THEN << >>
  ELSE LET p == TextPart(d, Head(ts), r)
       IN  Slice(d[Head(ts)].data, p.lo, p.hi) \o RangeTextOver(d, Tail(ts), r)

\* Range.toString(): the data of every Text node in the range
RangeText(d, r) == RangeTextOver(d, AllText(d, Top), r)

----------------------------------------------------------------------------
(* dom-text-mapper: build(root) *)

RECURSIVE visitDom(_, _)
RECURSIVE visitDomKids(_, _, _)
visitDom(d, n) ==
  IF IsText(d, n) THEN << n >>
  ELSE IF d[n].tag \in NonRendering THEN << >>
  ELSE visitDomKids(d, d[n].kids, 1)
visitDomKids(d, kids, i) ==
  IF i > Len(kids) THEN << >> ELSE visitDom(d, kids[i]) \o visitDomKids(d, kids, i + 1)

\* Text nodes under root in document order, script/style/noscript skipped
walkDomTextNodes(d, root) == visitDomKids(d, d[root].kids, 1)

RECURSIVE visitParsed(_, _)
RECURSIVE visitParsedKids(_, _, _, _)
\* The text runs of parse(root.innerHTML): serialising and re-parsing joins
\* adjacent Text nodes into one run and yields no run for an empty Text node.
visitParsed(d, n) ==
  IF d[n].tag \in NonRendering THEN << >> ELSE visitParsedKids(d, d[n].kids, 1, << >>)
\* run: the text of the adjacent Text siblings read so far
visitParsedKids(d, kids, i, run) ==
  IF i > Len(kids) THEN (IF run = << >> THEN << >> ELSE << run >>)
  ELSE IF IsText(d, kids[i]) THEN visitParsedKids(d, kids, i + 1, run \o d[kids[i]].data)
  ELSE (IF run = << >> THEN << >> ELSE << run >>)
       \o visitParsed(d, kids[i]) \o visitParsedKids(d, kids, i + 1, << >>)

walkParsedText(d, root) == visitParsedKids(d, d[root].kids, 1, << >>)

RECURSIVE ConcatAll(_)
ConcatAll(ss) == IF ss = << >> THEN << >> ELSE Head(ss) \o ConcatAll(Tail(ss))

\* segment table from the parsed runs zipped with the DOM Text nodes
ZipSegments(runs, nodes) ==
  LET F[i \in 0..Len(runs)] ==
        IF i = 0 THEN << >>
        ELSE LET st == IF i = 1 THEN 0 ELSE F[i - 1][i - 1].end
             IN  Append(F[i - 1], [start |-> st, end |-> st + Len(runs[i]), node |-> nodes[i]])
  IN  F[Len(runs)]

\* segment table from the DOM Text nodes alone
DomSegments(d, nodes) ==
  LET F[i \in 0..Len(nodes)] ==
        IF i = 0 THEN << >>
        ELSE LET st == IF i = 1 THEN 0 ELSE F[i - 1][i - 1].end
             IN  Append(F[i - 1], [start |-> st, end |-> st + NodeLen(d, nodes[i]), node |-> nodes[i]])
  IN  F[Len(nodes)]

\* A build that zips the parsed runs with the Text nodes whatever their counts.
buildAlwaysZipping(d, root) ==
  LET runs == walkParsedText(d, root)
      domTextNodes == walkDomTextNodes(d, root)
  IN  [text |-> ConcatAll(runs), segments |-> ZipSegments(runs, domTextNodes)]

\* build(root): document text and the segment table behind the mapper
build(d, root) ==
  LET runs == walkParsedText(d, root)
      domTextNodes == walkDomTextNodes(d, root)
  IN  IF Len(runs) = Len(domTextNodes)
      THEN [text |-> ConcatAll(runs), segments |-> ZipSegments(runs, domTextNodes)]
      ELSE [text |-> ConcatData(d, domTextNodes), segments |-> DomSegments(d, domTextNodes)]

\* mapper.offsetsToRange(start, end)
offsetsToRange(d, segments, start, end) ==
  LET sHits == {i \in 1..Len(segments) : start <= segments[i].end}
      eHits == {i \in 1..Len(segments) : end <= segments[i].end}
  IN  IF eHits = {} \/ sHits = {} THEN NullRange
      ELSE LET si == SetMin(sHits)
               ei == SetMin(eHits)
               sOff == Max(0, Min(start - segments[si].start, NodeLen(d, segments[si].node)))
               eOff == Max(0, Min(end - segments[ei].start, NodeLen(d, segments[ei].node)))
           IN  IF si > ei THEN NullRange     \* the loop breaks at ei with the start unset
               ELSE SetStartEnd(d, Bp(segments[si].node, sOff), Bp(segments[ei].node, eOff))

RECURSIVE getFirstTextNode(_, _)
RECURSIVE firstTextIn(_, _, _)
\* 0 stands for null
getFirstTextNode(d, n) ==
  IF IsText(d, n) THEN n
  ELSE IF d[n].tag \in NonRendering THEN 0
  ELSE firstTextIn(d, d[n].kids, 1)
firstTextIn(d, kids, i) ==
  IF i > Len(kids) THEN 0
  ELSE LET t == getFirstTextNode(d, kids[i])
       IN  IF t # 0 THEN t ELSE firstTextIn(d, kids, i + 1)

RECURSIVE getLastTextNode(_, _)
RECURSIVE lastTextIn(_, _, _)
getLastTextNode(d, n) ==
  IF IsText(d, n) THEN n
  ELSE IF d[n].tag \in NonRendering THEN 0
  ELSE lastTextIn(d, d[n].kids, Len(d[n].kids))
lastTextIn(d, kids, i) ==
  IF i < 1 THEN 0
  ELSE LET t == getLastTextNode(d, kids[i])
       IN  IF t # 0 THEN t ELSE lastTextIn(d, kids, i - 1)

NoPos == Bp(0, 0)

RECURSIVE getLastTextNodeBefore(_, _)
RECURSIVE lastTextBeforeSib(_, _, _)
\* last (text node, offset) that precedes element el in document order
getLastTextNodeBefore(d, el) ==
  IF d[el].parent = 0 THEN NoPos
  ELSE LET found == lastTextBeforeSib(d, d[d[el].parent].kids, ChildPos(d, el) - 1)
       IN  IF found # 0 THEN Bp(found, NodeLen(d, found))
           ELSE getLastTextNodeBefore(d, d[el].parent)
lastTextBeforeSib(d, kids, i) ==
  IF i < 1 THEN 0
  ELSE LET t == getLastTextNode(d, kids[i])
       IN  IF t # 0 THEN t ELSE lastTextBeforeSib(d, kids, i - 1)

normalizeToTextPosition(d, node, offset, bound) ==
  IF IsText(d, node) THEN Bp(node, Min(offset, NodeLen(d, node)))
  ELSE IF offset <= 0
       THEN IF bound = "end" THEN getLastTextNodeBefore(d, node)
            ELSE LET first == getFirstTextNode(d, node)
                 IN  IF first # 0 THEN Bp(first, 0) ELSE NoPos
  ELSE IF offset >= ChildCount(d, node)
       THEN LET last == getLastTextNode(d, node)
            IN  IF last # 0 THEN Bp(last, NodeLen(d, last)) ELSE NoPos
  ELSE LET first == getFirstTextNode(d, d[node].kids[offset + 1])
       IN  IF first # 0 THEN Bp(first, 0) ELSE NoPos

\* -1 stands for null
positionToOffset(d, segments, container, offset) ==
  LET hits == {i \in 1..Len(segments) : segments[i].node = container}
  IN  IF hits = {} THEN -1
      ELSE segments[SetMin(hits)].start + Min(offset, NodeLen(d, container))

\* mapper.rangeToOffsets(range)
rangeToOffsets(d, segments, r) ==
  LET startPos == normalizeToTextPosition(d, r.sc, r.so, "start")
      endPos == normalizeToTextPosition(d, r.ec, r.eo, "end")
  IN  IF startPos = NoPos \/ endPos = NoPos THEN [start |-> 0, end |-> 0]
      ELSE LET start == positionToOffset(d, segments, startPos.node, startPos.offset)
               end == positionToOffset(d, segments, endPos.node, endPos.offset)
           IN  IF start = -1 \/ end = -1 THEN [start |-> 0, end |-> 0]
               ELSE [start |-> start, end |-> end]

----------------------------------------------------------------------------
(* selectors.ts: building the three selectors and resolving an XPath *)

TEXT_QUOTE_CONTEXT_LENGTH == 32

\* absent selectors (the fields of AnnotationTarget.selector are optional)
NoRangeSel == [present |-> FALSE, start |-> << >>, end |-> << >>, startOffset |-> 0, endOffset |-> 0]
NoPositionSel == [present |-> FALSE, start |-> 0, end |-> 0]
NoQuoteSel == [present |-> FALSE, exact |-> << >>, prefix |-> << >>, suffix |-> << >>]
NoTarget == [range |-> NoRangeSel, textPosition |-> NoPositionSel, textQuote |-> NoQuoteSel]

\* element that contains a boundary: the parent of a text node, or the element; 0 for null
getElementContaining(d, node) ==
  IF IsText(d, node)
  THEN (IF d[node].parent # 0 /\ IsEl(d, d[node].parent) THEN d[node].parent ELSE 0)
  ELSE node

\* 1-based index of el among its siblings of the same tag
SameTagIndex(d, el) ==
  IF d[el].parent = 0 THEN 1          \* the body: the only body of its parent
  ELSE LET kids == d[d[el].parent].kids
       IN  Cardinality({i \in 1..ChildPos(d, el) :
                          IsEl(d, kids[i]) /\ d[kids[i]].tag = d[el].tag})

RECURSIVE getXPathFromRoot(_, _, _)
\* the steps tag[index] from root down to element ("div[1]/p[2]")
getXPathFromRoot(d, element, root) ==
  IF element = root \/ element = 0 THEN << >>
  ELSE Append(getXPathFromRoot(d, d[element].parent, root),
              [tag |-> d[element].tag, index |-> SameTagIndex(d, element)])

\* tag names the step pattern /^([a-zA-Z][a-zA-Z0-9-]*)\[(\d+)\]$/ accepts
XPathTags == {"div", "p", "span", "b", "table", "tr", "td", "script", "style"}

RECURSIVE nodeFromXPath(_, _, _)
\* 0 stands for null
nodeFromXPath(d, current, xpath) ==
  IF xpath = << >> THEN current
  ELSE LET seg == Head(xpath)
           kids == d[current].kids
           same == {i \in 1..Len(kids) : IsEl(d, kids[i]) /\ d[kids[i]].tag = seg.tag}
           upTo(i) == Cardinality({j \in same : j <= i})
           hit == {i \in same : upTo(i) = seg.index}
       IN  IF seg.tag \notin XPathTags \/ seg.index < 1 \/ hit = {} THEN 0
           ELSE nodeFromXPath(d, kids[CHOOSE i \in hit : TRUE], Tail(xpath))

\* walkTextUntil visits every Text node below the element (no subtree is skipped)
RECURSIVE offsetInElementWalk(_, _, _, _)
offsetInElementWalk(d, ts, charOffset, pos) ==
  IF ts = << >> THEN NoPos
  ELSE LET len == NodeLen(d, Head(ts))
       IN  IF charOffset <= pos + len THEN Bp(Head(ts), Min(charOffset - pos, len))
           ELSE offsetInElementWalk(d, Tail(ts), charOffset, pos + len)

offsetInElementToDomPosition(d, element, charOffset) ==
  IF charOffset < 0 THEN NoPos
  ELSE offsetInElementWalk(d, AllTextKids(d, d[element].kids, 1), charOffset, 0)

RECURSIVE getOffsetWalk(_, _, _, _, _)
getOffsetWalk(d, ts, container, offset, pos) ==
  IF ts = << >> THEN 0                      \* not found: 0
  ELSE LET len == NodeLen(d, Head(ts))
       IN  IF Head(ts) = container THEN pos + Min(offset, len)
           ELSE getOffsetWalk(d, Tail(ts), container, offset, pos + len)

getOffsetInElement(d, element, container, offset) ==
  getOffsetWalk(d, AllTextKids(d, d[element].kids, 1), container, offset, 0)

\* A check that looks at the start boundary only.
RangeSelectorThrowsOnStartOnly(d, r, root) ==
  LET startElement == getElementContaining(d, r.sc)
  IN  startElement = 0 \/ ~IsAncestorOrSelf(d, root, startElement)

\* toRangeSelector throws when a boundary has no element under root
RangeSelectorThrows(d, r, root) ==
  LET startElement == getElementContaining(d, r.sc)
      endElement == getElementContaining(d, r.ec)
  IN  \/ startElement = 0 \/ endElement = 0
      \/ ~IsAncestorOrSelf(d, root, startElement)
      \/ ~IsAncestorOrSelf(d, root, endElement)

toRangeSelector(d, r, root) ==
  LET startElement == getElementContaining(d, r.sc)
      endElement == getElementContaining(d, r.ec)
  IN  [present |-> TRUE,
       start |-> getXPathFromRoot(d, startElement, root),
       end |-> getXPathFromRoot(d, endElement, root),
       startOffset |-> getOffsetInElement(d, startElement, r.sc, r.so),
       endOffset |-> getOffsetInElement(d, endElement, r.ec, r.eo)]

toTextPositionSelector(d, segments, r) ==
  LET o == rangeToOffsets(d, segments, r)
  IN  [present |-> TRUE, start |-> o.start, end |-> o.end]

\* A quote selector whose prefix window is measured back from the end offset.
toTextQuoteSelectorWindowFromEnd(documentText, start, end, prefixLen, suffixLen) ==
  [present |-> TRUE,
   exact |-> Slice(documentText, start, end),
   prefix |-> Slice(documentText, Max(0, end - prefixLen), start),
   suffix |-> Slice(documentText, end, Min(Len(documentText), end + suffixLen))]

toTextQuoteSelector(documentText, start, end, prefixLen, suffixLen) ==
  [present |-> TRUE,
   exact |-> Slice(documentText, start, end),
   prefix |-> Slice(documentText, Max(0, start - prefixLen), start),
   suffix |-> Slice(documentText, end, Min(Len(documentText), end + suffixLen))]

\* Anchorer.buildSelectorsFromRange
buildSelectorsFromRange(d, r, root, snapshot, prefixLen, suffixLen) ==
  LET textPositionSel == toTextPositionSelector(d, snapshot.segments, r)
  IN  [range |-> toRangeSelector(d, r, root),
       textPosition |-> textPositionSel,
       textQuote |-> toTextQuoteSelector(snapshot.text, textPositionSel.start,
                                         textPositionSel.end, prefixLen, suffixLen)]

----------------------------------------------------------------------------
(* anchoring.ts: the four strategies *)

\* an absent optional number (positionHint): -1; offsets in the model are >= 0
NoHint == -1

\* an optional string: expectedQuote
NoQuote == [present |-> FALSE, value |-> << >>]
SomeQuote(s) == [present |-> TRUE, value |-> s]

\* anchorFromRangeSelector(selector, root, expectedQuote)
anchorFromRangeSelector(d, selector, root, expectedQuote) ==
  LET startEl == nodeFromXPath(d, root, selector.start)
      endEl == nodeFromXPath(d, root, selector.end)
  IN  IF startEl = 0 \/ endEl = 0 THEN NullRange
      ELSE LET startPos == offsetInElementToDomPosition(d, startEl, selector.startOffset)
               endPos == offsetInElementToDomPosition(d, endEl, selector.endOffset)
           IN  IF startPos = NoPos \/ endPos = NoPos THEN NullRange
               ELSE LET range == SetStartEnd(d, startPos, endPos)
                        rangeText == Trim(RangeText(d, range))
                    IN  IF expectedQuote.present /\ rangeText # Trim(expectedQuote.value)
                        THEN NullRange
                        ELSE range

\* anchorFromTextPositionSelector(selector, mapper, _expectedQuote): the
\* expected quote is not looked at
anchorFromTextPositionSelector(d, selector, segments, expectedQuote) ==
  offsetsToRange(d, segments, selector.start, selector.end)

RECURSIVE findFrom(_, _, _)
findFrom(documentText, needle, from) ==
  LET idx == IF from > Len(documentText) THEN -1 ELSE IndexOf(documentText, needle, from)
  IN  IF idx < 0 THEN << >>
      ELSE << [start |-> idx, end |-> idx + Len(needle)] >> \o findFrom(documentText, needle, idx + 1)

\* every occurrence of a non-empty needle, in document order
findAllNeedleMatches(documentText, needle) == findFrom(documentText, needle, 0)

findAllExactMatches(documentText, exact) ==
  LET trimmed == Trim(exact)
  IN  IF trimmed = << >> THEN << >> ELSE findFrom(documentText, trimmed, 0)

\* score bonus per matching side, and the scale of the position bonus
ContextBonus == 10
HintScale == 100

\* prefixMatch / suffixMatch of pickBestMatch for the match m
prefixMatches(documentText, m, prefix) ==
  LET before == Slice(documentText, Max(0, m.start - Len(prefix)), m.start)
  IN  Len(prefix) = 0 \/ EndsWith(Trim(before), Trim(prefix)) \/ before = prefix
suffixMatches(documentText, m, suffix) ==
  LET after == Slice(documentText, m.end, Min(Len(documentText), m.end + Len(suffix)))
  IN  Len(suffix) = 0 \/ StartsWith(Trim(after), Trim(suffix)) \/ StartsWith(after, suffix)

\* twice the score of pickBestMatch (the midpoint of a match may be a half)
score2(documentText, m, positionHint, prefix, suffix) ==
  (IF prefixMatches(documentText, m, prefix) THEN 2 * ContextBonus ELSE 0)
  + (IF suffixMatches(documentText, m, suffix) THEN 2 * ContextBonus ELSE 0)
  + (IF positionHint # NoHint
     THEN Max(0, 2 * HintScale - Abs((m.start + m.end) - 2 * positionHint))
     ELSE 0)

\* the candidates pickBestMatch chooses among
pickCandidates(matches, documentText, prefix, suffix) ==
  LET both(m) == prefixMatches(documentText, m, prefix) /\ suffixMatches(documentText, m, suffix)
      F[i \in 0..Len(matches)] ==
        IF i = 0 THEN << >>
        ELSE IF both(matches[i]) THEN Append(F[i - 1], matches[i]) ELSE F[i - 1]
      restrict(withContext) ==
        IF (Len(prefix) > 0 \/ Len(suffix) > 0) /\ withContext # << >>
        THEN withContext ELSE matches
  IN  restrict(F[Len(matches)])

\* pickBestMatch(matches, documentText, {positionHint, prefix, suffix})
pickBestMatch(matches, documentText, positionHint, prefix, suffix) ==
  LET among(candidates) ==
        LET scores == [i \in 1..Len(candidates) |->
                         score2(documentText, candidates[i], positionHint, prefix, suffix)]
            dists == [i \in 1..Len(candidates) |->
                        Abs((candidates[i].start + candidates[i].end) - 2 * positionHint)]
            choose(sc, dist) ==
              LET bestScore == SetMax({sc[i] : i \in DOMAIN sc})
                  nearest == SetMin({dist[i] : i \in DOMAIN dist})
              IN  IF bestScore <= 0 /\ positionHint # NoHint
                  THEN candidates[SetMin({i \in DOMAIN dist : dist[i] = nearest})]
                  \* the first candidate whose score is the highest
                  ELSE candidates[SetMin({i \in DOMAIN sc : sc[i] = bestScore})]
        IN  choose(scores, dists)
  IN  IF matches = << >> THEN NoOffsets
      ELSE IF Len(matches) = 1 THEN matches[1]
      ELSE among(pickCandidates(matches, documentText, prefix, suffix))

\* anchorFromQuoteContext(documentText, quote, hintStart, fuzzy = true)
anchorFromQuoteContext(documentText, quote, hintStart) ==
  LET exact == Trim(quote.exact)
      prefix == Trim(quote.prefix)
      suffix == Trim(quote.suffix)
      needle == prefix \o exact \o suffix
      matches == findAllNeedleMatches(documentText, needle)
  IN  IF exact = << >> THEN NoOffsets
      ELSE IF matches = << >>
      THEN LET normDoc == normalizeWhitespace(documentText)
               nIdx == IndexOf(normDoc, normalizeWhitespace(needle), 0)
               normStart == nIdx + Len(normalizeWhitespace(prefix))
               normEnd == normStart + Len(normalizeWhitespace(exact))
           IN  IF nIdx < 0 THEN NoOffsets
               ELSE normalizedToOriginalOffsets(documentText, normStart, normEnd)
      ELSE LET best == IF Len(matches) = 1 THEN matches[1]
                       ELSE pickBestMatch(matches, documentText, hintStart, << >>, << >>)
           IN  [start |-> best.start + Len(prefix),
                end |-> best.start + Len(prefix) + Len(exact)]

\* /^"[^"]*"$/.test(s)
IsDoubleQuoted(s) ==
  /\ Len(s) >= 2
  /\ s[1] = "\"" /\ s[Len(s)] = "\""
  /\ \A i \in 2..(Len(s) - 1) : s[i] # "\""

\* anchorFromQuoteOnly(documentText, exact, {positionHint, prefix, suffix})
anchorFromQuoteOnly(documentText, exact, positionHint, prefix, suffix) ==
  LET t0 == Trim(exact)
      trimmed == IF IsDoubleQuoted(t0) THEN Trim(SubSeq(t0, 2, Len(t0) - 1)) ELSE t0
      matches == findAllExactMatches(documentText, trimmed)
  IN  IF trimmed = << >> THEN NoOffsets
      ELSE IF matches = << >>
      THEN LET normalizedQuote == normalizeWhitespace(trimmed)
               nIdx == IndexOf(normalizeWhitespace(documentText), normalizedQuote, 0)
           IN  IF nIdx < 0 THEN NoOffsets
               ELSE normalizedToOriginalOffsets(documentText, nIdx, nIdx + Len(normalizedQuote))
      ELSE IF Len(matches) = 1 THEN matches[1]
      ELSE pickBestMatch(matches, documentText, positionHint, prefix, suffix)

----------------------------------------------------------------------------
(* anchorer.ts: Anchorer.disambiguateQuote and Anchorer.anchor *)

\* Anchorer.disambiguateQuote(range, expectedQuote, text, mapper, selector)
disambiguateQuote(d, range, expectedQuote, snapshot, selector) ==
  LET replace(bestRange) == IF bestRange = NullRange THEN range ELSE bestRange
      compare(off, best) ==
        IF best.start = off.start /\ best.end = off.end THEN range
        ELSE replace(offsetsToRange(d, snapshot.segments, best.start, best.end))
      among(matches) ==
        IF Len(matches) <= 1 THEN range
        ELSE compare(rangeToOffsets(d, snapshot.segments, range),
                     pickBestMatch(matches, snapshot.text,
                                   IF selector.textPosition.present
                                   THEN selector.textPosition.start ELSE NoHint,
                                   selector.textQuote.prefix, selector.textQuote.suffix))
  IN  among(findAllExactMatches(snapshot.text, expectedQuote))

AllFailedError == "All four anchoring strategies failed (range, position, quote-context, quote-only)"

Success(range, strategy, tried) ==
  [ok |-> TRUE, range |-> range, strategy |-> strategy, error |-> "", tried |-> tried]
Failure(tried) ==
  [ok |-> FALSE, range |-> NullRange, strategy |-> "", error |-> AllFailedError, tried |-> tried]

\* expectedQuote = selector.textQuote?.exact?.trim()
ExpectedQuoteOf(selector) ==
  IF selector.textQuote.present THEN SomeQuote(Trim(selector.textQuote.exact)) ELSE NoQuote

\* Strategy 1 without the test for a collapsed range.
Strategy1AcceptingCollapsed(d, root, selector) ==
  IF ~selector.range.present THEN NullRange
  ELSE anchorFromRangeSelector(d, selector.range, root, ExpectedQuoteOf(selector))

\* the range strategy 1 proposes, NullRange when it fails or is skipped
Strategy1(d, root, selector) ==
  IF ~selector.range.present THEN NullRange
  ELSE LET range == anchorFromRangeSelector(d, selector.range, root, ExpectedQuoteOf(selector))
       IN  IF range # NullRange /\ ~Collapsed(range) THEN range ELSE NullRange

\* the range strategy 2 proposes
Strategy2(d, snapshot, selector) ==
  IF ~selector.textPosition.present THEN NullRange
  ELSE LET range == anchorFromTextPositionSelector(d, selector.textPosition, snapshot.segments,
                                                   ExpectedQuoteOf(selector))
       IN  IF range # NullRange /\ ~Collapsed(range) THEN range ELSE NullRange

\* strategies 3 and 4: offsets found in the text, mapped to a range
OffsetsToNonCollapsed(d, snapshot, offsets) ==
  IF offsets = NoOffsets THEN NullRange
  ELSE LET range == offsetsToRange(d, snapshot.segments, offsets.start, offsets.end)
       IN  IF range # NullRange /\ ~Collapsed(range) THEN range ELSE NullRange

HintOf(selector) ==
  IF selector.textPosition.present THEN selector.textPosition.start ELSE NoHint

Strategy3(d, snapshot, selector) ==
  IF snapshot.text = << >> \/ ~selector.textQuote.present THEN NullRange
  ELSE OffsetsToNonCollapsed(d, snapshot,
         anchorFromQuoteContext(snapshot.text, selector.textQuote, HintOf(selector)))

Strategy4(d, snapshot, selector) ==
  IF snapshot.text = << >> \/ ~selector.textQuote.present \/ selector.textQuote.exact = << >>
  THEN NullRange
  ELSE OffsetsToNonCollapsed(d, snapshot,
         anchorFromQuoteOnly(snapshot.text, selector.textQuote.exact, HintOf(selector),
                             selector.textQuote.prefix, selector.textQuote.suffix))

\* after strategy 1 or 2 succeeded: if (expectedQuote && text) disambiguate
AfterDisambiguation(d, range, snapshot, selector) ==
  LET expectedQuote == ExpectedQuoteOf(selector)
  IN  IF expectedQuote.present /\ expectedQuote.value # << >> /\ snapshot.text # << >>
      THEN disambiguateQuote(d, range, expectedQuote.value, snapshot, selector)
      ELSE range

\* Anchorer.anchor with the position strategy tried before the structural one.
anchorPositionFirst(d, root, selector, snapshot) ==
  LET t2 == IF selector.textPosition.present THEN << "position" >> ELSE << >>
      t1 == t2 \o (IF selector.range.present THEN << "range" >> ELSE << >>)
      t3 == t1 \o (IF snapshot.text # << >> /\ selector.textQuote.present
                   THEN << "quote-context" >> ELSE << >>)
      t4 == t3 \o (IF snapshot.text # << >> /\ selector.textQuote.present
                      /\ selector.textQuote.exact # << >>
                   THEN << "quote-only" >> ELSE << >>)
      first(r1, r2, r3, r4) ==
        IF r2 # NullRange
        THEN Success(AfterDisambiguation(d, r2, snapshot, selector), "position", t2)
        ELSE IF r1 # NullRange
        THEN Success(AfterDisambiguation(d, r1, snapshot, selector), "range", t1)
        ELSE IF r3 # NullRange THEN Success(r3, "quote-context", t3)
        ELSE IF r4 # NullRange THEN Success(r4, "quote-only", t4)
        ELSE Failure(t4)
  IN  first(Strategy1(d, root, selector), Strategy2(d, snapshot, selector),
            Strategy3(d, snapshot, selector), Strategy4(d, snapshot, selector))

\* Anchorer.anchor(annotation, root, context); tried lists the strategies
\* that were entered, in the order they were entered
anchor(d, root, selector, snapshot) ==
  LET t1 == IF selector.range.present THEN << "range" >> ELSE << >>
      t2 == t1 \o (IF selector.textPosition.present THEN << "position" >> ELSE << >>)
      t3 == t2 \o (IF snapshot.text # << >> /\ selector.textQuote.present
                   THEN << "quote-context" >> ELSE << >>)
      t4 == t3 \o (IF snapshot.text # << >> /\ selector.textQuote.present
                      /\ selector.textQuote.exact # << >>
                   THEN << "quote-only" >> ELSE << >>)
      first(r1, r2, r3, r4) ==
        IF r1 # NullRange
        THEN Success(AfterDisambiguation(d, r1, snapshot, selector), "range", t1)
        ELSE IF r2 # NullRange
        THEN Success(AfterDisambiguation(d, r2, snapshot, selector), "position", t2)
        ELSE IF r3 # NullRange THEN Success(r3, "quote-context", t3)
        ELSE IF r4 # NullRange THEN Success(r4, "quote-only", t4)
        ELSE Failure(t4)
  IN  first(Strategy1(d, root, selector), Strategy2(d, snapshot, selector),
            Strategy3(d, snapshot, selector), Strategy4(d, snapshot, selector))

----------------------------------------------------------------------------
(* highlighter.ts *)

\* Range.intersectsNode(node)
intersectsNode(d, r, n) ==
  IF d[n].parent = 0 THEN TRUE
  ELSE LET parent == d[n].parent
           offset == ChildPos(d, n) - 1
       IN  BpLess(d, Bp(parent, offset), REnd(r)) /\ BpLess(d, RStart(r), Bp(parent, offset + 1))

\* Range.commonAncestorContainer
RECURSIVE commonAncestor(_, _, _)
commonAncestor(d, a, b) ==
  IF IsAncestorOrSelf(d, a, b) THEN a ELSE commonAncestor(d, d[a].parent, b)
commonAncestorContainer(d, r) == commonAncestor(d, r.sc, r.ec)

\* A slice that takes the whole of every text node the range touches.
getTextNodeSliceWholeNode(d, textNode, r) ==
  IF ~intersectsNode(d, r, textNode) THEN NoOffsets
  ELSE [start |-> 0, end |-> NodeLen(d, textNode)]

\* A slice that always runs to the end of the text node.
getTextNodeSliceToNodeEnd(d, textNode, r) ==
  LET startCmp == BpCmp(d, RStart(r), Bp(textNode, 0))
      intersectionStart == IF startCmp <= 0 THEN 0 ELSE r.so
  IN  IF ~intersectsNode(d, r, textNode) THEN NoOffsets
      ELSE IF intersectionStart >= NodeLen(d, textNode) THEN NoOffsets
      ELSE [start |-> intersectionStart, end |-> NodeLen(d, textNode)]

\* getTextNodeSlice(textNode, range): the offsets of the part of the text
\* node inside the range, NoOffsets for null
getTextNodeSlice(d, textNode, r) ==
  LET startCmp == BpCmp(d, RStart(r), Bp(textNode, 0))
      endCmp == BpCmp(d, REnd(r), Bp(textNode, NodeLen(d, textNode)))
      intersectionStart == IF startCmp <= 0 THEN 0 ELSE r.so
      intersectionEnd == IF endCmp >= 0 THEN NodeLen(d, textNode) ELSE r.eo
  IN  IF ~intersectsNode(d, r, textNode) THEN NoOffsets
      ELSE IF startCmp >= 0 /\ endCmp <= 0 THEN [start |-> r.so, end |-> r.eo]
      ELSE IF intersectionStart >= intersectionEnd THEN NoOffsets
      ELSE [start |-> intersectionStart, end |-> intersectionEnd]

\* rangeFullyContainsElement(range, element)
rangeFullyContainsElement(d, r, element) ==
  /\ BpCmp(d, RStart(r), Bp(element, 0)) <= 0
  /\ BpCmp(d, REnd(r), Bp(element, ChildCount(d, element))) >= 0

RECURSIVE collectWalk(_, _, _)
RECURSIVE collectWalkKids(_, _, _, _)
\* walk(node) of collectHighlightRanges: the text slices to wrap, in document
\* order; an element is descended into whether or not the range contains it
collectWalk(d, r, node) ==
  IF ~intersectsNode(d, r, node) THEN << >>
  ELSE IF IsText(d, node)
  THEN LET slice == getTextNodeSlice(d, node, r)
       IN  IF slice # NoOffsets /\ Trim(Slice(d[node].data, slice.start, slice.end)) # << >>
           THEN << [node |-> node, start |-> slice.start, end |-> slice.end] >>
           ELSE << >>
  ELSE collectWalkKids(d, r, d[node].kids, 1)
collectWalkKids(d, r, kids, i) ==
  IF i > Len(kids) THEN << >>
  ELSE collectWalk(d, r, kids[i]) \o collectWalkKids(d, r, kids, i + 1)

collectHighlightRanges(d, r, root) == collectWalk(d, r, root)

\* a fresh node id
FreshId(d) == Cardinality(DOMAIN d) + 1

ReplaceAt(kids, pos, new) == SubSeq(kids, 1, pos - 1) \o new \o SubSeq(kids, pos + 1, Len(kids))

\* A wrapping that appends the pieces to the parent (appendChild) instead of
\* inserting them where the text node stood.
wrapTextSegmentAppending(d, segment, annotationId) ==
  LET node == segment.node
      midText == Slice(d[node].data, segment.start, segment.end)
      parent == d[node].parent
      beforeLen == segment.start
      afterLen == NodeLen(d, node) - segment.end
      span == FreshId(d)
      mid == span + 1
      bId == span + 2
      aId == IF beforeLen > 0 THEN span + 3 ELSE span + 2
      newKids == (IF beforeLen > 0 THEN << bId >> ELSE << >>) \o << span >>
                 \o (IF afterLen > 0 THEN << aId >> ELSE << >>)
      added == (span :> [El("span", parent, << mid >>) EXCEPT !.cls = HIGHLIGHT_CLASS,
                                                             !.ann = annotationId])
               @@ (mid :> Tx(span, midText))
               @@ (IF beforeLen > 0 THEN bId :> Tx(parent, Slice(d[node].data, 0, beforeLen))
                   ELSE << >>)
               @@ (IF afterLen > 0
                   THEN aId :> Tx(parent, Slice(d[node].data, segment.end, NodeLen(d, node)))
                   ELSE << >>)
  IN  IF Trim(midText) = << >> \/ parent = 0 THEN [dom |-> d, span |-> 0]
      ELSE [dom |-> [d EXCEPT ![parent].kids = ReplaceAt(@, ChildPos(d, node), << >>) \o newKids,
                              ![node].parent = 0] @@ added,
            span |-> span]

\* wrapTextSegment(segment, annotationId, options): the DOM afterwards and the
\* span (0 for null).  The text node is replaced in its parent by
\* [text before] <span>[marked text]</span> [text after] and removed.
wrapTextSegment(d, segment, annotationId) ==
  LET node == segment.node
      midText == Slice(d[node].data, segment.start, segment.end)
      parent == d[node].parent
      beforeLen == segment.start
      afterLen == NodeLen(d, node) - segment.end
      beforeText == Slice(d[node].data, 0, beforeLen)
      afterText == Slice(d[node].data, segment.end, NodeLen(d, node))
      span == FreshId(d)
      mid == span + 1
      bId == span + 2
      aId == IF beforeLen > 0 THEN span + 3 ELSE span + 2
      newKids == (IF beforeLen > 0 THEN << bId >> ELSE << >>) \o << span >>
                 \o (IF afterLen > 0 THEN << aId >> ELSE << >>)
      added == (span :> [El("span", parent, << mid >>) EXCEPT !.cls = HIGHLIGHT_CLASS,
                                                             !.ann = annotationId])
               @@ (mid :> Tx(span, midText))
               @@ (IF beforeLen > 0 THEN bId :> Tx(parent, beforeText) ELSE << >>)
               @@ (IF afterLen > 0 THEN aId :> Tx(parent, afterText) ELSE << >>)
  IN  IF Trim(midText) = << >> \/ parent = 0 THEN [dom |-> d, span |-> 0]
      ELSE [dom |-> [d EXCEPT ![parent].kids = ReplaceAt(@, ChildPos(d, node), newKids),
                              ![node].parent = 0] @@ added,
            span |-> span]

RECURSIVE wrapAll(_, _, _, _)
\* the loop of highlightRange: the slices are wrapped from the last to the first
wrapAll(d, textSegments, i, annotationId) ==
  IF i < 1 THEN [dom |-> d, any |-> FALSE]
  ELSE LET w == wrapTextSegment(d, textSegments[i], annotationId)
           rest == wrapAll(w.dom, textSegments, i - 1, annotationId)
       IN  [dom |-> rest.dom, any |-> (w.span # 0) \/ rest.any]

\* highlightRange(range, annotationId, options): the DOM afterwards and the
\* returned boolean
highlightRange(d, r, annotationId) ==
  LET root == commonAncestorContainer(d, r)
      walkRoot == IF IsText(d, root) THEN (IF d[root].parent # 0 THEN d[root].parent ELSE root)
                  ELSE root
      textSegments == collectHighlightRanges(d, r, walkRoot)
      done == wrapAll(d, textSegments, Len(textSegments), annotationId)
  IN  IF Collapsed(r) THEN [dom |-> d, ret |-> FALSE]
      ELSE IF textSegments = << >> THEN [dom |-> d, ret |-> FALSE]
      ELSE [dom |-> done.dom, ret |-> done.any]

RECURSIVE elementsBelow(_, _, _)
\* the elements among kids[i..] and below them, in document order
elementsBelow(d, kids, i) ==
  IF i > Len(kids) THEN << >>
  ELSE (IF IsEl(d, kids[i]) THEN << kids[i] >> \o elementsBelow(d, d[kids[i]].kids, 1)
        ELSE << >>)
       \o elementsBelow(d, kids, i + 1)

\* root.querySelectorAll('.annotator-highlight'): a static list
querySelectorAllHighlights(d, root) ==
  SelectSeq(elementsBelow(d, d[root].kids, 1), LAMBDA e : d[e].cls = HIGHLIGHT_CLASS)

\* An un-marking that removes a marker span together with what it holds.
unwrapOrUntagRemovingContents(d, el) ==
  IF d[el].tag = "span"
  THEN LET parent == d[el].parent
       IN  IF parent = 0 THEN d
           ELSE [d EXCEPT ![parent].kids = ReplaceAt(@, ChildPos(d, el), << >>),
                          ![el].parent = 0]
  ELSE [d EXCEPT ![el].cls = "", ![el].ann = 0]

\* the body of the forEach of clearHighlights: a span is replaced in its
\* parent by its own children and removed; any other element loses the class
\* and the annotation id
unwrapOrUntag(d, el) ==
  IF d[el].tag = "span"
  THEN LET parent == d[el].parent
           moved == {d[el].kids[i] : i \in 1..Len(d[el].kids)}
       IN  IF parent = 0 THEN d
           ELSE [n \in DOMAIN d |->
                   IF n = parent
                   THEN [d[n] EXCEPT !.kids = ReplaceAt(@, ChildPos(d, el), d[el].kids)]
                   ELSE IF n = el THEN [d[n] EXCEPT !.kids = << >>, !.parent = 0]
                   ELSE IF n \in moved THEN [d[n] EXCEPT !.parent = parent]
                   ELSE d[n]]
  ELSE [d EXCEPT ![el].cls = "", ![el].ann = 0]

RECURSIVE clearEach(_, _)
clearEach(d, list) ==
  IF list = << >> THEN d ELSE clearEach(unwrapOrUntag(d, Head(list)), Tail(list))

\* clearHighlights(root): the DOM afterwards
clearHighlights(d, root) == clearEach(d, querySelectorAllHighlights(d, root))

----------------------------------------------------------------------------
(* State *)

VARIABLES
  dom,       \* the live DOM: node id -> node record
  phase,     \* "fresh", "stored" (an annotation was created), "resolved"
  target,    \* the stored selector set of the annotation (AnnotationTarget.selector)
  origin,    \* history: what the user selected when the annotation was created
  edits,     \* number of edits the host page made to the document since creation
  snap,      \* the snapshot (text, segments) the last resolution ran against
  result,    \* the AnchorResult of the last resolution
  resolves,  \* number of resolutions of the stored annotation so far
  before,    \* history: the DOM before the last highlightRange call
  hrange,    \* history: the range of the last highlightRange call
  hid,       \* history: the annotation id of the last highlightRange call
  marked,    \* what the last highlightRange call returned
  marks,     \* number of highlightRange calls
  store,     \* the annotation store: the saved annotations, in order of saving
  created,   \* outcome of the last AnnotationBuilder.done: "none", "saved", "rejected"
  todo,      \* runLoad: the annotations still to go, [page, content]
  ctx,       \* runLoad: currentText / currentMapper, the snapshot of the page-level loop
  anchored,  \* runLoad: the counter anchored
  ret,       \* what the last runLoad returned
  loads,     \* number of runLoad calls
  log,       \* history: one entry per annotation the running or last batch resolved
  pristine,  \* history: the document before any mark
  cleared,   \* history: the tree as clearHighlights left it in the last batch
  call,      \* the mapper or selector function last called, with its arguments
  out,       \* what that call returned
  procs,     \* the load batches of the page: name -> [pc, all, snap]
  builder,   \* the AnnotationBuilder.done call in flight: [pc, range, ann]
  panel,                        \* the extension panel is in the document
  contentScoped,                \* what isContentScopedPage() returns on this page
  reinjectTimeout,              \* a re-injection timer is pending
  annotatingComplete,           \* extension-content.ts: annotatingComplete
  dynamicReattachTimeout,       \* a mutation-triggered reattach timer is pending
  dynamicContentObserver,       \* the observer the variable holds; 0 for null
  dynamicContentObserveTarget,  \* the variable holds an element (not null)
  observing,                    \* the dynamic-content observers that are connected
  timers,                       \* the pending timers: [retry, dynamic], a count of each
  inFlight,                     \* number of runReattach calls awaiting reattachHighlights
  injections,                   \* number of times run() injected the panel
  seen                          \* history: what the observers saw of reattach runs

anchorVars == << target, origin, edits, snap, result, resolves >>
markVars == << before, hrange, hid, marked, marks >>
loadVars == << store, created, todo, ctx, anchored, ret, loads, log, pristine, cleared >>
probeVars == << call, out >>
raceVars == << procs, builder >>
scriptVars ==
  << panel, contentScoped, reinjectTimeout, annotatingComplete, dynamicReattachTimeout,
     dynamicContentObserver, dynamicContentObserveTarget, observing, timers, inFlight,
     injections, seen >>
vars == << dom, phase, anchorVars, markVars, loadVars, probeVars, raceVars, scriptVars >>

----------------------------------------------------------------------------
(* Documents *)

\* <body><div><p>xs s</p></div></body>
DocOne ==
  (1 :> El("body", 0, << 2 >>)) @@ (2 :> El("div", 1, << 3 >>)) @@
  (3 :> El("p", 2, << 4 >>)) @@ (4 :> Tx(3, << "x", "s", " ", "s" >>))

\* <body><div><p>ab</p><p> cd</p></div></body>
DocTwo ==
  (1 :> El("body", 0, << 2 >>)) @@ (2 :> El("div", 1, << 3, 5 >>)) @@
  (3 :> El("p", 2, << 4 >>)) @@ (4 :> Tx(3, << "a", "b" >>)) @@
  (5 :> El("p", 2, << 6 >>)) @@ (6 :> Tx(5, << " ", "c", "d" >>))

\* <body><div><p>"s"</p></div></body>
DocQuoted ==
  (1 :> El("body", 0, << 2 >>)) @@ (2 :> El("div", 1, << 3 >>)) @@
  (3 :> El("p", 2, << 4 >>)) @@ (4 :> Tx(3, << "\"", "s", "\"" >>))

\* <body><div><p>ab</p><script>zz</script><p>cd</p></div></body>
DocScript ==
  (1 :> El("body", 0, << 2 >>)) @@ (2 :> El("div", 1, << 3, 5, 7 >>)) @@
  (3 :> El("p", 2, << 4 >>)) @@ (4 :> Tx(3, << "a", "b" >>)) @@
  (5 :> El("script", 2, << 6 >>)) @@ (6 :> Tx(5, << "z", "z" >>)) @@
  (7 :> El("p", 2, << 8 >>)) @@ (8 :> Tx(7, << "c", "d" >>))

AnchorDocs == {DocOne, DocTwo, DocQuoted}

\* characters the host page may insert
EditChars == {"x"}

NodesUnder(d, root) == {n \in DOMAIN d : IsAncestorOrSelf(d, root, n)}
TextPoints(d, root) ==
  UNION {{Bp(t, o) : o \in 0..NodeLen(d, t)} : t \in {n \in NodesUnder(d, root) : IsText(d, n)}}
ElPoints(d, root) ==
  UNION {{Bp(e, i) : i \in 0..ChildCount(d, e)} : e \in {n \in NodesUnder(d, root) : IsEl(d, n)}}

\* the ranges a user selection may hand to the annotator: both boundaries in
\* text, or both given as (element, child index)
UserRanges(d, root) ==
  {Rng(s, e) : s \in TextPoints(d, root), e \in TextPoints(d, root)} \cup
  {Rng(s, e) : s \in ElPoints(d, root), e \in ElPoints(d, root)}

NoOrigin == [start |-> 0, end |-> 0, text |-> << >>, range |-> NullRange]
NoSnap == [text |-> << >>, segments |-> << >>]
NoResult == [ok |-> FALSE, range |-> NullRange, strategy |-> "", error |-> "", tried |-> << >>]

\* the selector kinds a stored annotation may carry
SelectorKinds == {"range", "textPosition", "textQuote"}
Keep(selector, kinds) ==
  [range |-> IF "range" \in kinds THEN selector.range ELSE NoRangeSel,
   textPosition |-> IF "textPosition" \in kinds THEN selector.textPosition ELSE NoPositionSel,
   textQuote |-> IF "textQuote" \in kinds THEN selector.textQuote ELSE NoQuoteSel]

----------------------------------------------------------------------------
(* Creating an annotation, editing the page, resolving *)

NoMarks ==
  /\ before = << >>
  /\ hrange = NullRange
  /\ hid = 0
  /\ marked = FALSE
  /\ marks = 0

NoTodo == [page |-> << >>, content |-> << >>, annotations |-> << >>]
NoRet == [returned |-> FALSE, annotations |-> << >>, anchored |-> 0, total |-> 0]

NoLoad ==
  /\ store = << >>
  /\ created = "none"
  /\ todo = NoTodo
  /\ ctx = NoSnap
  /\ anchored = 0
  /\ ret = NoRet
  /\ loads = 0
  /\ log = << >>
  /\ pristine = << >>
  /\ cleared = << >>

NoCall ==
  [fn |-> "none", range |-> NullRange, start |-> 0, end |-> 0, prefixLen |-> 0, suffixLen |-> 0]
NoOut == [range |-> NullRange, offsets |-> NoOffsets, quote |-> NoQuoteSel]

NoProbe ==
  /\ call = NoCall
  /\ out = NoOut

NoRace ==
  /\ procs = << >>
  /\ builder = [pc |-> "none", range |-> NullRange, ann |-> << >>]

NoSeen == [observed |-> FALSE, cause |-> "none", ranByOwn |-> FALSE, finished |-> FALSE]

NoScript ==
  /\ panel = FALSE
  /\ contentScoped = FALSE
  /\ reinjectTimeout = FALSE
  /\ annotatingComplete = FALSE
  /\ dynamicReattachTimeout = FALSE
  /\ dynamicContentObserver = 0
  /\ dynamicContentObserveTarget = FALSE
  /\ observing = {}
  /\ timers = [retry |-> 0, dynamic |-> 0]
  /\ inFlight = 0
  /\ injections = 0
  /\ seen = NoSeen


InitAnchor ==
  /\ dom \in AnchorDocs
  /\ phase = "fresh"
  /\ target = NoTarget
  /\ origin = NoOrigin
  /\ edits = 0
  /\ snap = NoSnap
  /\ result = NoResult
  /\ resolves = 0
  /\ NoMarks
  /\ NoLoad
  /\ NoProbe
  /\ NoRace
  /\ NoScript

\* The user selects r and an annotation is created from it
\* (build + Anchorer.buildSelectorsFromRange); the store later returns the
\* annotation with the selectors in kinds.
Select(r, contextLen, kinds) ==
  /\ phase = "fresh"
  /\ BpLeq(dom, RStart(r), REnd(r))
  /\ ~RangeSelectorThrows(dom, r, Root)
  /\ LET s == build(dom, Root)
         o == rangeToOffsets(dom, s.segments, r)
     IN  /\ target' = Keep(buildSelectorsFromRange(dom, r, Root, s, contextLen, contextLen), kinds)
         /\ origin' = [start |-> o.start, end |-> o.end, text |-> s.text, range |-> r]
  /\ phase' = "stored"
  /\ UNCHANGED << raceVars, scriptVars >>
  /\ UNCHANGED << dom, edits, snap, result, resolves, markVars, loadVars, probeVars >>

\* The host page deletes character i (0-based) of text node t.
DeleteChar(t, i) ==
  /\ phase = "stored"
  /\ edits < MaxEdits
  /\ i < NodeLen(dom, t)
  /\ dom' = [dom EXCEPT ![t].data = SubSeq(@, 1, i) \o SubSeq(@, i + 2, Len(@))]
  /\ edits' = edits + 1
  /\ UNCHANGED << raceVars, scriptVars >>
  /\ UNCHANGED << phase, target, origin, snap, result, resolves, markVars, loadVars, probeVars >>

\* The host page inserts character c before position i of text node t.
InsertChar(t, i, c) ==
  /\ phase = "stored"
  /\ edits < MaxEdits
  /\ i <= NodeLen(dom, t)
  /\ dom' = [dom EXCEPT ![t].data = SubSeq(@, 1, i) \o << c >> \o SubSeq(@, i + 1, Len(@))]
  /\ edits' = edits + 1
  /\ UNCHANGED << raceVars, scriptVars >>
  /\ UNCHANGED << phase, target, origin, snap, result, resolves, markVars, loadVars, probeVars >>

\* A load whose resolver trims the stored quote selector in place.
ResolveTrimmingTarget ==
  /\ phase \in {"stored", "resolved"}
  /\ resolves < MaxResolves
  /\ LET s == build(dom, Root)
     IN  /\ snap' = s
         /\ result' = anchor(dom, Root, target, s)
  /\ target' = [target EXCEPT !.textQuote.exact = Trim(@)]
  /\ phase' = "resolved"
  /\ resolves' = resolves + 1
  /\ UNCHANGED << raceVars, scriptVars >>
  /\ UNCHANGED << dom, origin, edits, markVars, loadVars, probeVars >>

\* One load: the snapshot is built from the live tree and the stored
\* annotation is resolved against it.  A page may load again later.
Resolve ==
  /\ phase \in {"stored", "resolved"}
  /\ resolves < MaxResolves
  /\ LET s == build(dom, Root)
     IN  /\ snap' = s
         /\ result' = anchor(dom, Root, target, s)
  /\ phase' = "resolved"
  /\ resolves' = resolves + 1
  /\ UNCHANGED << raceVars, scriptVars >>
  /\ UNCHANGED << dom, target, origin, edits, markVars, loadVars, probeVars >>

TextNodesUnderRoot == {n \in NodesUnder(dom, Root) : IsText(dom, n)}

NextAnchor ==
  \/ \E r \in UserRanges(dom, Root), c \in {ShortContext, TEXT_QUOTE_CONTEXT_LENGTH},
        k \in SUBSET SelectorKinds : Select(r, c, k)
  \/ \E t \in TextNodesUnderRoot : \E i \in 0..NodeLen(dom, t) : DeleteChar(t, i)
  \/ \E t \in TextNodesUnderRoot : \E i \in 0..NodeLen(dom, t), c \in EditChars : InsertChar(t, i, c)
  \/ Resolve

SpecAnchor == InitAnchor /\ [][NextAnchor]_vars

----------------------------------------------------------------------------
(* Marking *)

\* the annotation ids handed to highlightRange
AnnIds == {1, 2}

\* <body><div><table><tr><td>ab</td><td>c d</td></tr></table></div></body>
DocTable ==
  (1 :> El("body", 0, << 2 >>)) @@ (2 :> El("div", 1, << 3 >>)) @@
  (3 :> El("table", 2, << 4 >>)) @@ (4 :> El("tr", 3, << 5, 7 >>)) @@
  (5 :> El("td", 4, << 6 >>)) @@ (6 :> Tx(5, << "a", "b" >>)) @@
  (7 :> El("td", 4, << 8 >>)) @@ (8 :> Tx(7, << "c", " ", "d" >>))

\* <body><div><p>a <b>b</b></p> <p>c</p></div></body>
DocInline ==
  (1 :> El("body", 0, << 2 >>)) @@ (2 :> El("div", 1, << 3, 7, 8 >>)) @@
  (3 :> El("p", 2, << 4, 5 >>)) @@ (4 :> Tx(3, << "a", " " >>)) @@
  (5 :> El("b", 3, << 6 >>)) @@ (6 :> Tx(5, << "b" >>)) @@
  (7 :> Tx(2, << " " >>)) @@
  (8 :> El("p", 2, << 9 >>)) @@ (9 :> Tx(8, << "c" >>))

MarkDocs == {DocTable, DocInline, DocScript}

\* every range with both boundaries under root, start not after end
AllRanges(d, root) ==
  LET pts == TextPoints(d, root) \cup ElPoints(d, root)
  IN  {Rng(s, e) : s \in pts, e \in pts}

InitMark ==
  /\ dom \in MarkDocs
  /\ phase = "fresh"
  /\ target = NoTarget
  /\ origin = NoOrigin
  /\ edits = 0
  /\ snap = NoSnap
  /\ result = NoResult
  /\ resolves = 0
  /\ NoMarks
  /\ NoLoad
  /\ NoProbe
  /\ NoRace
  /\ NoScript

\* highlightRange(r, id) is called on the live DOM, once per annotation
Highlight(r, id) ==
  /\ marks < MaxMarks
  /\ id > hid
  /\ BpLeq(dom, RStart(r), REnd(r))
  /\ LET h == highlightRange(dom, r, id)
     IN  /\ dom' = h.dom
         /\ marked' = h.ret
  /\ before' = dom
  /\ hrange' = r
  /\ hid' = id
  /\ marks' = marks + 1
  /\ phase' = "marked"
  /\ UNCHANGED << raceVars, scriptVars >>
  /\ UNCHANGED << anchorVars, loadVars, probeVars >>

NextMark == \E r \in AllRanges(dom, Root), id \in AnnIds : Highlight(r, id)

SpecMark == InitMark /\ [][NextMark]_vars

----------------------------------------------------------------------------
(* Creating annotations and loading them onto the page: annotation.ts *)

\* number of annotations the store holds at most
MaxStored == 2

\* number of runLoad calls
MaxLoads == 1

\* <body><div><p id="c1">ab</p><p> b</p></div><p>z</p></body>
\* (the last paragraph lies outside the annotatable root)
DocSession ==
  (1 :> El("body", 0, << 2, 7 >>)) @@ (2 :> El("div", 1, << 3, 5 >>)) @@
  (3 :> El("p", 2, << 4 >>)) @@ (4 :> Tx(3, << "a", "b" >>)) @@
  (5 :> El("p", 2, << 6 >>)) @@ (6 :> Tx(5, << " ", "b" >>)) @@
  (7 :> El("p", 1, << 8 >>)) @@ (8 :> Tx(7, << "z" >>))

\* the element that carries an id attribute, and the attribute of each node;
\* the documents carry no links, no article elements and no data-* attributes
BlockNode == 3
idAttr(n) == IF n = BlockNode THEN "c1" ELSE ""

\* the URL of the page, as getPageUrl returns it
PageUrl == "page"

RECURSIVE contentUrlFrom(_, _)
\* the loop of getContentUrlFromRange: the first node from n upwards that is
\* an element with a content URL (here: an id); "" for null
contentUrlFrom(d, n) ==
  IF n = 0 THEN ""
  ELSE IF IsEl(d, n) /\ idAttr(n) # "" THEN idAttr(n)
  ELSE contentUrlFrom(d, d[n].parent)

getContentUrlFromRange(d, r) == contentUrlFrom(d, r.sc)

\* getContentRoots(root): the elements below root that carry an id, by content URL
getContentRoots(d, root) ==
  {[contentUrl |-> idAttr(e), blockRoot |-> e] :
     e \in {n \in NodesUnder(d, root) \ {root} : IsEl(d, n) /\ idAttr(n) # ""}}

\* contentUrlToRoot.get(source); 0 for undefined
contentUrlToRoot(d, root, source) ==
  LET hits == {c \in getContentRoots(d, root) : c.contentUrl = source}
  IN  IF hits = {} THEN 0 ELSE (CHOOSE c \in hits : TRUE).blockRoot

\* an annotation of this page whose text the page no longer has
Stale ==
  [id |-> 1, source |-> PageUrl,
   selector |-> [range |-> NoRangeSel, textPosition |-> NoPositionSel,
                 textQuote |-> [present |-> TRUE, exact |-> << "q" >>,
                                prefix |-> << >>, suffix |-> << >>]]]

\* an annotation of another page
Elsewhere == [Stale EXCEPT !.source = "other", !.selector.textQuote.exact = << "b" >>]

\* what the store holds when the page opens
StoredBefore == {<< >>, << Stale >>, << Elsewhere >>}

\* the selections a user can make: both boundaries in text, anywhere in the body
Selections(d) ==
  {Rng(s, e) : s \in TextPoints(d, Top), e \in TextPoints(d, Top)}

InitLoad ==
  /\ dom = DocSession
  /\ phase = "idle"
  /\ target = NoTarget
  /\ origin = NoOrigin
  /\ edits = 0
  /\ snap = NoSnap
  /\ result = NoResult
  /\ resolves = 0
  /\ NoMarks
  /\ store \in StoredBefore
  /\ created = "none"
  /\ todo = NoTodo
  /\ ctx = NoSnap
  /\ anchored = 0
  /\ ret = NoRet
  /\ loads = 0
  /\ log = << >>
  /\ pristine = DocSession
  /\ cleared = << >>
  /\ NoProbe
  /\ NoRace
  /\ NoScript

\* the annotation done() builds from range r
newAnnotation(d, r, root, id) ==
  LET url == getContentUrlFromRange(d, r)
  IN  [id |-> id,
       source |-> IF url # "" THEN url ELSE PageUrl,
       selector |-> buildSelectorsFromRange(d, r, root, build(d, root),
                                            TEXT_QUOTE_CONTEXT_LENGTH, TEXT_QUOTE_CONTEXT_LENGTH)]

\* AnnotationBuilder.done() for a selection r: the selectors are built (which
\* throws for a range outside root), the annotation is saved and the range is
\* highlighted under the saved id.
Done(r) ==
  /\ phase \in {"idle", "loaded"}
  /\ Len(store) < MaxStored
  /\ BpLess(dom, RStart(r), REnd(r))
  /\ IF RangeSelectorThrows(dom, r, Root)
     THEN /\ created' = "rejected"
          /\ UNCHANGED << dom, store >>
     ELSE /\ created' = "saved"
          /\ store' = Append(store, newAnnotation(dom, r, Root, Len(store) + 1))
          /\ dom' = highlightRange(dom, r, Len(store) + 1).dom
  /\ phase' = "idle"
  /\ UNCHANGED << raceVars, scriptVars >>
  /\ UNCHANGED << anchorVars, markVars, todo, ctx, anchored, ret, loads, log, pristine,
                  cleared, probeVars >>

\* runLoad up to its first loop: the stored annotations are filtered, the old
\* marks are cleared and the snapshot is built
LoadStart ==
  /\ phase \in {"idle", "loaded"}
  /\ loads < MaxLoads
  /\ LET pageLevel == SelectSeq(store, LAMBDA a : a.source = PageUrl)
         contentLevel ==
           SelectSeq(store, LAMBDA a : a.source # PageUrl
                                        /\ contentUrlToRoot(dom, Root, a.source) # 0)
     IN  todo' = [page |-> pageLevel, content |-> contentLevel,
                  annotations |-> pageLevel \o contentLevel]
  /\ \E d1 \in {clearHighlights(dom, Root)} :
       /\ dom' = d1
       /\ cleared' = d1
       /\ ctx' = build(d1, Root)
  /\ anchored' = 0
  /\ log' = << >>
  /\ ret' = NoRet
  /\ loads' = loads + 1
  /\ phase' = "loading"
  /\ UNCHANGED << raceVars, scriptVars >>
  /\ UNCHANGED << anchorVars, markVars, store, created, pristine, probeVars >>

\* A batch step that counts an annotation as soon as it was resolved.
resolveAndHighlightCountingResolved(d, ann, root, snapshot) ==
  LET draw(res) ==
        IF res.ok
        THEN [dom |-> highlightRange(d, res.range, ann.id).dom, ok |-> TRUE,
              didHighlight |-> TRUE]
        ELSE [dom |-> d, ok |-> FALSE, didHighlight |-> FALSE]
  IN  draw(anchor(d, root, ann.selector, snapshot))

\* resolveRange() and, on success, highlightRange(): the DOM afterwards,
\* whether the annotation was resolved and whether a highlight was drawn
resolveAndHighlight(d, ann, root, snapshot) ==
  LET draw(res) ==
        IF res.ok
        THEN LET h == highlightRange(d, res.range, ann.id)
             IN  [dom |-> h.dom, ok |-> TRUE, didHighlight |-> h.ret]
        ELSE [dom |-> d, ok |-> FALSE, didHighlight |-> FALSE]
  IN  draw(anchor(d, root, ann.selector, snapshot))

\* A page-level iteration that keeps the snapshot it started with.
LoadPageLevelKeepingSnapshot ==
  /\ phase = "loading"
  /\ todo.page # << >>
  /\ \E ann \in {Head(todo.page)} :
       \E step \in {resolveAndHighlight(dom, ann, Root, ctx)} :
         /\ dom' = step.dom
         /\ anchored' = IF step.didHighlight THEN anchored + 1 ELSE anchored
         /\ log' = Append(log, [id |-> ann.id, ok |-> step.ok, marked |-> step.didHighlight,
                                fresh |-> ctx = build(dom, Root)])
  /\ todo' = [todo EXCEPT !.page = Tail(@)]
  /\ UNCHANGED << raceVars, scriptVars >>
  /\ UNCHANGED << phase, anchorVars, markVars, store, created, ctx, ret, loads, pristine,
                  cleared, probeVars >>

\* one iteration of the page-level loop of runLoad
LoadPageLevel ==
  /\ phase = "loading"
  /\ todo.page # << >>
  /\ \E ann \in {Head(todo.page)} :
       \E step \in {resolveAndHighlight(dom, ann, Root, ctx)} :
         /\ dom' = step.dom
         /\ anchored' = IF step.didHighlight THEN anchored + 1 ELSE anchored
         /\ ctx' = IF step.didHighlight THEN build(step.dom, Root) ELSE ctx
         /\ log' = Append(log, [id |-> ann.id, ok |-> step.ok, marked |-> step.didHighlight,
                                fresh |-> ctx = build(dom, Root)])
  /\ todo' = [todo EXCEPT !.page = Tail(@)]
  /\ UNCHANGED << raceVars, scriptVars >>
  /\ UNCHANGED << phase, anchorVars, markVars, store, created, ret, loads, pristine,
                  cleared, probeVars >>

\* one iteration of the content-level loop of runLoad
LoadContentLevel ==
  /\ phase = "loading"
  /\ todo.page = << >>
  /\ todo.content # << >>
  /\ \E ann \in {Head(todo.content)} :
       \E blockRoot \in {contentUrlToRoot(dom, Root, ann.source)} :
         IF blockRoot = 0
         THEN UNCHANGED << dom, anchored, log >>
         ELSE \E s \in {build(dom, blockRoot)} :
              \E step \in {resolveAndHighlight(dom, ann, blockRoot, s)} :
                /\ dom' = step.dom
                /\ anchored' = IF step.didHighlight THEN anchored + 1 ELSE anchored
                /\ log' = Append(log, [id |-> ann.id, ok |-> step.ok,
                                       marked |-> step.didHighlight,
                                       fresh |-> s = build(dom, blockRoot)])
  /\ todo' = [todo EXCEPT !.content = Tail(@)]
  /\ UNCHANGED << raceVars, scriptVars >>
  /\ UNCHANGED << phase, anchorVars, markVars, store, created, ctx, ret, loads, pristine,
                  cleared, probeVars >>

\* runLoad returns { annotations, anchored, total }
LoadReturn ==
  /\ phase = "loading"
  /\ todo.page = << >>
  /\ todo.content = << >>
  /\ ret' = [returned |-> TRUE, annotations |-> todo.annotations, anchored |-> anchored,
             total |-> Len(todo.annotations)]
  /\ phase' = "loaded"
  /\ UNCHANGED << raceVars, scriptVars >>
  /\ UNCHANGED << dom, anchorVars, markVars, store, created, todo, ctx, anchored, loads, log,
                  pristine, cleared, probeVars >>

NextLoad ==
  \/ \E r \in Selections(dom) : Done(r)
  \/ LoadStart
  \/ LoadPageLevel
  \/ LoadContentLevel
  \/ LoadReturn

SpecLoad == InitLoad /\ [][NextLoad]_vars

----------------------------------------------------------------------------
(* The mapper and the quote selector, called on their own *)

\* how far outside the document text a flat offset may lie
OffsetSlack == 1

\* <body><div><p>a|b</p><p></p><p>c</p></div></body>: the first paragraph
\* holds two adjacent Text nodes (a mark was cleared there), the second one an
\* empty Text node
DocSplit ==
  (1 :> El("body", 0, << 2 >>)) @@ (2 :> El("div", 1, << 3, 6, 8 >>)) @@
  (3 :> El("p", 2, << 4, 5 >>)) @@ (4 :> Tx(3, << "a" >>)) @@ (5 :> Tx(3, << "b" >>)) @@
  (6 :> El("p", 2, << 7 >>)) @@ (7 :> Tx(6, << >>)) @@
  (8 :> El("p", 2, << 9 >>)) @@ (9 :> Tx(8, << "c" >>))

MapperDocs == {DocTwo, DocScript, DocSplit}

\* the flat offsets a caller may pass
Offsets == (0 - OffsetSlack)..(Len(snap.text) + OffsetSlack)

\* the context lengths a caller may pass
ContextLengths == {0, ShortContext, TEXT_QUOTE_CONTEXT_LENGTH}

InitMapper ==
  /\ dom \in MapperDocs
  /\ phase = "fresh"
  /\ target = NoTarget
  /\ origin = NoOrigin
  /\ edits = 0
  /\ snap = NoSnap
  /\ result = NoResult
  /\ resolves = 0
  /\ NoMarks
  /\ NoLoad
  /\ NoProbe
  /\ NoRace
  /\ NoScript

\* build(root): the snapshot the later calls use
Build ==
  /\ phase = "fresh"
  /\ snap' = build(dom, Root)
  /\ phase' = "built"
  /\ UNCHANGED << raceVars, scriptVars >>
  /\ UNCHANGED << dom, target, origin, edits, result, resolves, markVars, loadVars, probeVars >>

\* mapper.offsetsToRange(start, end)
MapOffsets(start, end) ==
  /\ phase = "built"
  /\ call' = [NoCall EXCEPT !.fn = "offsetsToRange", !.start = start, !.end = end]
  /\ out' = [NoOut EXCEPT !.range = offsetsToRange(dom, snap.segments, start, end)]
  /\ UNCHANGED << raceVars, scriptVars >>
  /\ UNCHANGED << dom, phase, anchorVars, markVars, loadVars >>

\* mapper.offsetsToRange on what mapper.rangeToOffsets(r) returned
RoundTrip(r) ==
  /\ phase = "built"
  /\ BpLeq(dom, RStart(r), REnd(r))
  /\ call' = [NoCall EXCEPT !.fn = "roundTrip", !.range = r]
  /\ \E o \in {rangeToOffsets(dom, snap.segments, r)} :
       out' = [NoOut EXCEPT !.offsets = o,
                            !.range = offsetsToRange(dom, snap.segments, o.start, o.end)]
  /\ UNCHANGED << raceVars, scriptVars >>
  /\ UNCHANGED << dom, phase, anchorVars, markVars, loadVars >>

\* toTextQuoteSelector(documentText, start, end, prefixLen, suffixLen)
Quote(start, end, prefixLen, suffixLen) ==
  /\ phase = "built"
  /\ call' = [NoCall EXCEPT !.fn = "toTextQuoteSelector", !.start = start, !.end = end,
                            !.prefixLen = prefixLen, !.suffixLen = suffixLen]
  /\ out' = [NoOut EXCEPT !.quote = toTextQuoteSelector(snap.text, start, end, prefixLen,
                                                         suffixLen)]
  /\ UNCHANGED << raceVars, scriptVars >>
  /\ UNCHANGED << dom, phase, anchorVars, markVars, loadVars >>

\* anchorFromRangeSelector on what toRangeSelector(r, root) returned
StructuralRoundTrip(r) ==
  /\ phase = "built"
  /\ BpLeq(dom, RStart(r), REnd(r))
  /\ ~RangeSelectorThrows(dom, r, Root)
  /\ call' = [NoCall EXCEPT !.fn = "structuralRoundTrip", !.range = r]
  /\ out' = [NoOut EXCEPT !.range = anchorFromRangeSelector(dom, toRangeSelector(dom, r, Root),
                                                            Root, NoQuote)]
  /\ UNCHANGED << raceVars, scriptVars >>
  /\ UNCHANGED << dom, phase, anchorVars, markVars, loadVars >>

NextMapper ==
  \/ Build
  \/ \E start \in Offsets, end \in Offsets : MapOffsets(start, end)
  \/ \E r \in UserRanges(dom, Root) : RoundTrip(r)
  \/ \E r \in UserRanges(dom, Root) : StructuralRoundTrip(r)
  \/ \E start \in Offsets, end \in Offsets, p \in ContextLengths, s \in ContextLengths :
       Quote(start, end, p, s)

SpecMapper == InitMapper /\ [][NextMapper]_vars

----------------------------------------------------------------------------
(* The quote strategies on their own: a quote selector is stored from one
   version of the page text and searched for in the same or another version *)

\* longest prefix and suffix context stored with a quote
MaxContext == 2

\* <body><div><p>text</p></div></body>
DocOf(text) ==
  (1 :> El("body", 0, << 2 >>)) @@ (2 :> El("div", 1, << 3 >>)) @@
  (3 :> El("p", 2, << 4 >>)) @@ (4 :> Tx(3, text))

\* n times the character c
Fill(c, n) == [i \in 1..n |-> c]

\* versions of the page text: "xs s", "xs x s", " x  s", "x s",
\* "aaaaaaaaaaaxsx" and "xsaaaaaaaaas"
QuoteTexts ==
  {<< "x", "s", " ", "s" >>,
   << "x", "s", " ", "x", " ", "s" >>,
   << " ", "x", " ", " ", "s" >>,
   << "x", " ", "s" >>,
   Fill("a", 11) \o << "x", "s", "x" >>,
   << "x", "s" >> \o Fill("a", 9) \o << "s" >>}

InitQuote ==
  /\ dom \in {DocOf(t) : t \in QuoteTexts}
  /\ phase = "fresh"
  /\ target = NoTarget
  /\ origin = NoOrigin
  /\ edits = 0
  /\ snap = NoSnap
  /\ result = NoResult
  /\ resolves = 0
  /\ NoMarks
  /\ NoLoad
  /\ NoProbe
  /\ NoRace
  /\ NoScript

\* An annotation is created from the text offsets start..end: the quote
\* selector is built from the page text; the position selector is stored with
\* it or not.
StoreQuote(start, end, prefixLen, suffixLen, withPosition) ==
  /\ phase = "fresh"
  /\ start < end
  /\ LET s == build(dom, Root)
     IN  /\ target' = [NoTarget EXCEPT
                         !.textQuote = toTextQuoteSelector(s.text, start, end, prefixLen, suffixLen),
                         !.textPosition = IF withPosition
                                          THEN [present |-> TRUE, start |-> start, end |-> end]
                                          ELSE NoPositionSel]
         /\ origin' = [start |-> start, end |-> end, text |-> s.text, range |-> NullRange]
  /\ phase' = "stored"
  /\ UNCHANGED << raceVars, scriptVars >>
  /\ UNCHANGED << dom, edits, snap, result, resolves, markVars, loadVars, probeVars >>

\* The host page replaces the text by another version.
Rewrite(text) ==
  /\ phase = "stored"
  /\ edits = 0
  /\ dom' = DocOf(text)
  /\ edits' = 1
  /\ UNCHANGED << raceVars, scriptVars >>
  /\ UNCHANGED << phase, target, origin, snap, result, resolves, markVars, loadVars, probeVars >>

\* what a search leaves: the snapshot it ran on, the function and its result
Searched(fn, s, offsets) ==
  /\ snap' = s
  /\ out' = [NoOut EXCEPT !.offsets = offsets]
  /\ call' = [NoCall EXCEPT !.fn = fn]
  /\ phase' = "searched"
  /\ UNCHANGED << raceVars, scriptVars >>
  /\ UNCHANGED << dom, target, origin, edits, result, resolves, markVars, loadVars >>

\* strategy 3 on the text of a fresh snapshot
SearchQuoteContext ==
  /\ phase = "stored"
  /\ LET s == build(dom, Root)
     IN  Searched("anchorFromQuoteContext", s,
                  anchorFromQuoteContext(s.text, target.textQuote, HintOf(target)))

\* strategy 4 on the text of a fresh snapshot
SearchQuoteOnly ==
  /\ phase = "stored"
  /\ LET s == build(dom, Root)
     IN  Searched("anchorFromQuoteOnly", s,
                  anchorFromQuoteOnly(s.text, target.textQuote.exact, HintOf(target),
                                      target.textQuote.prefix, target.textQuote.suffix))

\* disambiguation among several occurrences of the exact text
PickBest ==
  /\ phase = "stored"
  /\ LET s == build(dom, Root)
         matches == findAllExactMatches(s.text, target.textQuote.exact)
     IN  /\ Len(matches) > 1
         /\ Searched("pickBestMatch", s,
                     pickBestMatch(matches, s.text, HintOf(target), target.textQuote.prefix,
                                   target.textQuote.suffix))

\* the offsets a selection in the current page text may have
TextOffsets == 0..Len(build(dom, Root).text)

NextQuote ==
  \/ \E start \in TextOffsets, end \in TextOffsets,
        prefixLen \in 0..MaxContext, suffixLen \in 0..MaxContext, withPosition \in BOOLEAN :
       StoreQuote(start, end, prefixLen, suffixLen, withPosition)
  \/ \E text \in QuoteTexts : Rewrite(text)
  \/ SearchQuoteContext
  \/ SearchQuoteOnly
  \/ PickBest

SpecQuote == InitQuote /\ [][NextQuote]_vars

----------------------------------------------------------------------------
(* Load batches and annotation creation running side by side: main.ts,
   annotation.ts *)

\* anchorFromQuoteContext of anchoring.ts, which main.ts imports: the first
\* occurrence of prefix + exact + suffix at or after the search start, else
\* from the beginning, else the whitespace-collapsed search
mainAnchorFromQuoteContext(documentText, quote, hintStart) ==
  LET exact == Trim(quote.exact)
      prefix == Trim(quote.prefix)
      suffix == Trim(quote.suffix)
      needle == prefix \o exact \o suffix
      searchStart == IF hintStart # NoHint THEN Max(0, hintStart - Max(Len(prefix), 200))
                     ELSE 0
      first == IndexOf(documentText, needle, searchStart)
      idx == IF first < 0 /\ searchStart > 0 THEN IndexOf(documentText, needle, 0) ELSE first
      normDoc == normalizeWhitespace(documentText)
      nIdx == IndexOf(normDoc, normalizeWhitespace(needle), 0)
      normStart == nIdx + Len(normalizeWhitespace(prefix))
      normEnd == normStart + Len(normalizeWhitespace(exact))
  IN  IF exact = << >> THEN NoOffsets
      ELSE IF idx >= 0
      THEN [start |-> idx + Len(prefix), end |-> idx + Len(prefix) + Len(exact)]
      ELSE IF nIdx < 0 THEN NoOffsets
      ELSE normalizedToOriginalOffsets(documentText, normStart, normEnd)

\* anchorFromQuoteOnly of anchoring.ts: the first occurrence of the trimmed
\* text, else the whitespace-collapsed search
mainAnchorFromQuoteOnly(documentText, exact) ==
  LET trimmed == Trim(exact)
      idx == IndexOf(documentText, trimmed, 0)
      normalizedQuote == normalizeWhitespace(trimmed)
      nIdx == IndexOf(normalizeWhitespace(documentText), normalizedQuote, 0)
  IN  IF trimmed = << >> THEN NoOffsets
      ELSE IF idx >= 0 THEN [start |-> idx, end |-> idx + Len(trimmed)]
      ELSE IF nIdx < 0 THEN NoOffsets
      ELSE normalizedToOriginalOffsets(documentText, nIdx, nIdx + Len(normalizedQuote))

\* the first of four ranges that is not null
FirstRange(a, b, c, e) ==
  IF a # NullRange THEN a ELSE IF b # NullRange THEN b ELSE IF c # NullRange THEN c ELSE e

\* mapper.offsetsToRange of offsets a quote search returned; NullRange for null
MappedOffsets(d, segments, offsets) ==
  IF offsets = NoOffsets THEN NullRange
  ELSE offsetsToRange(d, segments, offsets.start, offsets.end)

\* anchorAnnotation(annotation, root, mapper, documentText): the first
\* strategy that returns a range; NullRange for null
anchorAnnotation(d, ann, root, snapshot) ==
  FirstRange(
    IF ann.selector.range.present
    THEN anchorFromRangeSelector(d, ann.selector.range, root, ExpectedQuoteOf(ann.selector))
    ELSE NullRange,
    IF ann.selector.textPosition.present
    THEN anchorFromTextPositionSelector(d, ann.selector.textPosition, snapshot.segments,
                                        ExpectedQuoteOf(ann.selector))
    ELSE NullRange,
    IF snapshot.text # << >> /\ ann.selector.textQuote.present
    THEN MappedOffsets(d, snapshot.segments,
                       mainAnchorFromQuoteContext(snapshot.text, ann.selector.textQuote,
                                                  HintOf(ann.selector)))
    ELSE NullRange,
    IF snapshot.text # << >> /\ ann.selector.textQuote.present
       /\ ann.selector.textQuote.exact # << >>
    THEN MappedOffsets(d, snapshot.segments,
                       mainAnchorFromQuoteOnly(snapshot.text, ann.selector.textQuote.exact))
    ELSE NullRange)

\* A boundary point of a live Range after wrapTextSegment(segment) changed
\* the tree d: a point in the removed text node moves to where that node
\* stood in its parent, behind the inserted nodes; a point of the parent
\* behind the node moves with the children it stands between.
boundaryAfterWrap(d, segment, p) ==
  LET node == segment.node
      parent == d[node].parent
      index == ChildPos(d, node) - 1
      count == 1 + (IF segment.start > 0 THEN 1 ELSE 0)
                 + (IF NodeLen(d, node) - segment.end > 0 THEN 1 ELSE 0)
  IN  IF p.node = node THEN Bp(parent, index + count)
      ELSE IF p.node = parent /\ p.offset > index THEN Bp(parent, p.offset + count - 1)
      ELSE p

\* A boundary point of a live Range after clearHighlights unwrapped the span
\* el: a point in or below the span moves behind the span's former children;
\* a point of the parent behind the span moves with the children.
boundaryAfterUnwrap(d, el, p) ==
  LET parent == d[el].parent
      index == ChildPos(d, el) - 1
      count == Len(d[el].kids)
  IN  IF IsAncestorOrSelf(d, el, p.node) THEN Bp(parent, index + count)
      ELSE IF p.node = parent /\ p.offset > index THEN Bp(parent, p.offset + count - 1)
      ELSE p

RECURSIVE rangeAfterWraps(_, _, _, _, _)
\* the live Range r after the loop of highlightRange wrapped textSegments[1..i]
rangeAfterWraps(d, textSegments, i, annotationId, r) ==
  IF i < 1 THEN r
  ELSE LET w == wrapTextSegment(d, textSegments[i], annotationId)
           moved == IF w.span = 0 THEN r
                    ELSE Rng(boundaryAfterWrap(d, textSegments[i], RStart(r)),
                             boundaryAfterWrap(d, textSegments[i], REnd(r)))
       IN  rangeAfterWraps(w.dom, textSegments, i - 1, annotationId, moved)

\* the live Range r after highlightRange(range, annotationId) changed the tree
rangeAfterHighlight(d, range, annotationId, r) ==
  LET root == commonAncestorContainer(d, range)
      walkRoot == IF IsText(d, root) THEN (IF d[root].parent # 0 THEN d[root].parent ELSE root)
                  ELSE root
      textSegments == collectHighlightRanges(d, range, walkRoot)
  IN  IF r = NullRange \/ Collapsed(range) THEN r
      ELSE rangeAfterWraps(d, textSegments, Len(textSegments), annotationId, r)

RECURSIVE rangeAfterClearEach(_, _, _)
rangeAfterClearEach(d, list, r) ==
  IF list = << >> THEN r
  ELSE LET el == Head(list)
           moved == IF d[el].tag = "span" /\ d[el].parent # 0
                    THEN Rng(boundaryAfterUnwrap(d, el, RStart(r)),
                             boundaryAfterUnwrap(d, el, REnd(r)))
                    ELSE r
       IN  rangeAfterClearEach(unwrapOrUntag(d, el), Tail(list), moved)

\* the live Range r after clearHighlights(root) changed the tree
rangeAfterClear(d, root, r) ==
  IF r = NullRange THEN r ELSE rangeAfterClearEach(d, querySelectorAllHighlights(d, root), r)

\* a step of a drawing loop: the tree, what highlightRange returned and the
\* live Range of a creation that is under way
Step(d, didHighlight, r) == [dom |-> d, ret |-> didHighlight, range |-> r]
Highlighted(h, r) == Step(h.dom, h.ret, r)

\* if (range && !range.collapsed) highlightRange(range, ann.id, ...)
drawRange(d, range, annotationId, r) ==
  IF range = NullRange \/ Collapsed(range) THEN Step(d, FALSE, r)
  ELSE Highlighted(highlightRange(d, range, annotationId),
                   rangeAfterHighlight(d, range, annotationId, r))

RECURSIVE drawPageLevel(_, _, _, _)
RECURSIVE drawPageLevelNext(_, _, _)
\* the page-level loop of init and reattachHighlights: the tree afterwards
\* and the live Range r of a creation that is under way
drawPageLevel(d, anns, snapshot, r) ==
  IF anns = << >> THEN Step(d, FALSE, r)
  ELSE drawPageLevelNext(Tail(anns), snapshot,
         drawRange(d, anchorAnnotation(d, Head(anns), Root, snapshot), Head(anns).id, r))

\* the text and the mapper are rebuilt after a highlight was drawn
drawPageLevelNext(anns, snapshot, step) ==
  drawPageLevel(step.dom, anns, IF step.ret THEN build(step.dom, Root) ELSE snapshot,
                step.range)

\* the range of a content-level annotation in its block: anchorFromQuoteOnly
\* on the text of the block, mapped by the mapper of the block
blockRange(d, block, exact) ==
  IF exact = << >> THEN NullRange
  ELSE MappedOffsets(d, block.segments, mainAnchorFromQuoteOnly(block.text, exact))

RECURSIVE drawContentLevel(_, _, _)
RECURSIVE drawContentLevelNext(_, _)
\* the content-level loop of init and reattachHighlights
drawContentLevel(d, anns, r) ==
  IF anns = << >> THEN Step(d, FALSE, r)
  ELSE IF contentUrlToRoot(d, Root, Head(anns).source) = 0
  THEN drawContentLevel(d, Tail(anns), r)
  ELSE drawContentLevelNext(Tail(anns),
         drawRange(d, blockRange(d, build(d, contentUrlToRoot(d, Root, Head(anns).source)),
                                 Head(anns).selector.textQuote.exact),
                   Head(anns).id, r))

drawContentLevelNext(anns, step) == drawContentLevel(step.dom, anns, step.range)

\* the annotations of the store's answer that init and reattachHighlights
\* draw, and the drawing itself
drawAll(d, all, snapshot, r) ==
  drawContentLevelNext(
    SelectSeq(all, LAMBDA a : a.source # PageUrl /\ contentUrlToRoot(d, Root, a.source) # 0),
    drawPageLevel(d, SelectSeq(all, LAMBDA a : a.source = PageUrl), snapshot, r))

\* if (result.ok) highlighter.highlightRange(result.range)
drawResult(d, res, annotationId, r) ==
  IF ~res.ok THEN Step(d, FALSE, r)
  ELSE Highlighted(highlightRange(d, res.range, annotationId),
                   rangeAfterHighlight(d, res.range, annotationId, r))

RECURSIVE runLoadPageLevel(_, _, _, _)
RECURSIVE runLoadPageLevelNext(_, _, _)
\* the page-level loop of runLoad: the tree afterwards and the live Range r
\* of a creation that is under way
runLoadPageLevel(d, anns, snapshot, r) ==
  IF anns = << >> THEN Step(d, FALSE, r)
  ELSE runLoadPageLevelNext(Tail(anns), snapshot,
         drawResult(d, anchor(d, Root, Head(anns).selector, snapshot), Head(anns).id, r))

runLoadPageLevelNext(anns, snapshot, step) ==
  runLoadPageLevel(step.dom, anns, IF step.ret THEN build(step.dom, Root) ELSE snapshot,
                   step.range)

\* resolveRange() of a content-level annotation against its block
blockResult(d, blockRoot, selector) == anchor(d, blockRoot, selector, build(d, blockRoot))

RECURSIVE runLoadContentLevel(_, _, _)
RECURSIVE runLoadContentLevelNext(_, _)
\* the content-level loop of runLoad
runLoadContentLevel(d, anns, r) ==
  IF anns = << >> THEN Step(d, FALSE, r)
  ELSE IF contentUrlToRoot(d, Root, Head(anns).source) = 0
  THEN runLoadContentLevel(d, Tail(anns), r)
  ELSE runLoadContentLevelNext(Tail(anns),
         drawResult(d, blockResult(d, contentUrlToRoot(d, Root, Head(anns).source),
                                   Head(anns).selector),
                    Head(anns).id, r))

runLoadContentLevelNext(anns, step) == runLoadContentLevel(step.dom, anns, step.range)

\* the loops of runLoad on the cleared tree
runLoadDraws(d, all, clean, r) ==
  runLoadContentLevelNext(
    SelectSeq(all, LAMBDA a : a.source # PageUrl /\ contentUrlToRoot(d, Root, a.source) # 0),
    runLoadPageLevel(clean, SelectSeq(all, LAMBDA a : a.source = PageUrl),
                     build(clean, Root), r))

\* runLoad after await store.load(): the old marks are cleared and the
\* annotations of the answer are drawn
runLoad(d, all, r) ==
  runLoadDraws(d, all, clearHighlights(d, Root), rangeAfterClear(d, Root, r))

\* the batches: init(config) of run(), the delayed retry, the
\* mutation-triggered reattach and a load() of annotation.ts
Batches == {"init", "retry", "mutation", "load"}
Reattaches == {"retry", "mutation"}

\* number of batches that run on one page
MaxBatches == 2

\* another batch may start
MayStart == Cardinality({b \in Batches : procs[b].pc # "idle"}) < MaxBatches

NoBatch == [pc |-> "idle", all |-> << >>, snap |-> NoSnap]
NoBuilder == [pc |-> "none", range |-> NullRange, ann |-> << >>]

\* an annotation of this page, created on an earlier visit: the 'b' of the
\* second paragraph
Kept == newAnnotation(DocSession, Rng(Bp(6, 1), Bp(6, 2)), Root, 1)

\* the selections of the user: text to text, inside and outside the root,
\* and whole elements
RaceSelections ==
  {Rng(Bp(4, 0), Bp(4, 2)), Rng(Bp(4, 1), Bp(6, 2)), Rng(Bp(6, 1), Bp(6, 2)),
   Rng(Bp(2, 0), Bp(2, 2)), Rng(Bp(4, 0), Bp(8, 1))}

InitRace ==
  /\ dom = DocSession
  /\ phase = "open"
  /\ target = NoTarget
  /\ origin = NoOrigin
  /\ edits = 0
  /\ snap = NoSnap
  /\ result = NoResult
  /\ resolves = 0
  /\ NoMarks
  /\ store \in {<< >>, << Kept >>}
  /\ created = "none"
  /\ todo = NoTodo
  /\ ctx = NoSnap
  /\ anchored = 0
  /\ ret = NoRet
  /\ loads = 0
  /\ log = << >>
  /\ pristine = DocSession
  /\ cleared = << >>
  /\ NoProbe
  /\ procs = [b \in Batches |-> NoBatch]
  /\ builder = NoBuilder
  /\ NoScript

\* init(config) after await getStore(): the text and the mapper are built,
\* then store.load() is awaited
InitBuilds ==
  /\ procs["init"].pc = "idle"
  /\ MayStart
  /\ procs' = [procs EXCEPT !["init"] = [pc |-> "started", all |-> << >>,
                                          snap |-> build(dom, Root)]]
  /\ UNCHANGED << dom, phase, anchorVars, markVars, loadVars, probeVars, builder, scriptVars >>

\* reattachHighlights(config) up to its first await: clearHighlights(ROOT)
ReattachClears(b) ==
  /\ procs[b].pc = "idle"
  /\ MayStart
  /\ procs' = [procs EXCEPT ![b].pc = "started"]
  /\ dom' = clearHighlights(dom, Root)
  /\ builder' = [builder EXCEPT !.range = rangeAfterClear(dom, Root, @)]
  /\ UNCHANGED << phase, anchorVars, markVars, loadVars, probeVars, scriptVars >>

\* the store answers the load() of a batch with what it holds (runLoad
\* changes nothing before it asks)
StoreAnswers(b) ==
  /\ procs[b].pc = IF b = "load" THEN "idle" ELSE "started"
  /\ b = "load" => MayStart
  /\ procs' = [procs EXCEPT ![b].pc = "fetched", ![b].all = store]
  /\ UNCHANGED << dom, phase, anchorVars, markVars, loadVars, probeVars, builder, scriptVars >>

\* a batch resumes after await store.load() and draws: init with the
\* snapshot it built before the await, reattachHighlights with a new one
Draws(b) ==
  /\ b # "load"
  /\ procs[b].pc = "fetched"
  /\ procs' = [procs EXCEPT ![b].pc = "finished"]
  /\ \E drawn \in {drawAll(dom, procs[b].all,
                           IF b = "init" THEN procs[b].snap ELSE build(dom, Root),
                           builder.range)} :
       /\ dom' = drawn.dom
       /\ builder' = [builder EXCEPT !.range = drawn.range]
  /\ UNCHANGED << phase, anchorVars, markVars, loadVars, probeVars, scriptVars >>

\* runLoad resumes after await store.load(): it clears and draws in one go
LoadRuns ==
  /\ procs["load"].pc = "fetched"
  /\ procs' = [procs EXCEPT !["load"].pc = "finished"]
  /\ \E drawn \in {runLoad(dom, procs["load"].all, builder.range)} :
       /\ dom' = drawn.dom
       /\ builder' = [builder EXCEPT !.range = drawn.range]
  /\ UNCHANGED << phase, anchorVars, markVars, loadVars, probeVars, scriptVars >>

\* AnnotationBuilder.done() up to await save(): the selectors are built (which
\* throws for a range outside root) and the annotation is handed to the store
DoneStarts(r) ==
  /\ builder.pc = "none"
  /\ Len(store) < MaxStored
  /\ builder' = IF RangeSelectorThrows(dom, r, Root)
                THEN [pc |-> "rejected", range |-> NullRange, ann |-> << >>]
                ELSE [pc |-> "saving", range |-> r,
                      ann |-> << newAnnotation(dom, r, Root, Len(store) + 1) >>]
  /\ UNCHANGED << dom, phase, anchorVars, markVars, loadVars, probeVars, procs, scriptVars >>

\* the store takes the annotation in; the save() call has not returned yet
SaveArrives ==
  /\ builder.pc = "saving"
  /\ builder' = [builder EXCEPT !.pc = "saved"]
  /\ store' = Append(store, builder.ann[1])
  /\ created' = "saved"
  /\ UNCHANGED << dom, phase, anchorVars, markVars, todo, ctx, anchored, ret, loads, log,
                  pristine, cleared, probeVars, procs, scriptVars >>

\* done() resumes after await save() and highlights the range it was given
DoneMarks ==
  /\ builder.pc = "saved"
  /\ builder' = [builder EXCEPT !.pc = "done"]
  /\ dom' = highlightRange(dom, builder.range, builder.ann[1].id).dom
  /\ UNCHANGED << phase, anchorVars, markVars, loadVars, probeVars, procs, scriptVars >>

NextRace ==
  \/ InitBuilds
  \/ \E b \in Reattaches : ReattachClears(b)
  \/ \E b \in Batches : StoreAnswers(b)
  \/ \E b \in Batches : Draws(b)
  \/ LoadRuns
  \/ \E r \in RaceSelections : DoneStarts(r)
  \/ SaveArrives
  \/ DoneMarks

SpecRace == InitRace /\ [][NextRace]_vars

----------------------------------------------------------------------------
(* The content script: extension-content.ts *)

\* number of times run() injects the panel
MaxInjections == 2

\* number of runReattach calls that await reattachHighlights at the same time
MaxRuns == 2

\* scheduleDynamicReattach(reason), called by the observer callback for a
\* change that by is the cause of ("page" or "own"): the variables afterwards
scheduleDynamicReattach(complete, timeout, t, by, cause) ==
  IF complete \/ ~contentScoped
  THEN [timeout |-> timeout, timers |-> t, cause |-> cause]
  ELSE [timeout |-> TRUE,
        timers |-> [t EXCEPT !.dynamic = (IF timeout THEN @ - 1 ELSE @) + 1],
        cause |-> by]

\* the state after the top-level run() and watchForPanelRemoval()
InitScript ==
  /\ dom = DocOne
  /\ phase = "script"
  /\ target = NoTarget
  /\ origin = NoOrigin
  /\ edits = 0
  /\ snap = NoSnap
  /\ result = NoResult
  /\ resolves = 0
  /\ NoMarks
  /\ NoLoad
  /\ NoProbe
  /\ NoRace
  /\ panel = TRUE
  /\ contentScoped \in BOOLEAN
  /\ reinjectTimeout = FALSE
  /\ annotatingComplete = FALSE
  /\ dynamicReattachTimeout = FALSE
  /\ dynamicContentObserver = IF contentScoped THEN 1 ELSE 0
  /\ dynamicContentObserveTarget = contentScoped
  /\ observing = IF contentScoped THEN {1} ELSE {}
  /\ timers = [retry |-> 1, dynamic |-> 0]
  /\ inFlight = 0
  /\ injections = 1
  /\ seen = NoSeen

\* The page removes the panel element (the body itself stays): the callback
\* of watchForPanelRemoval calls scheduleReinject().
PanelRemoved ==
  /\ panel
  /\ injections < MaxInjections
  /\ panel' = FALSE
  /\ reinjectTimeout' = TRUE
  /\ UNCHANGED << dom, phase, anchorVars, markVars, loadVars, probeVars, raceVars,
                  contentScoped, annotatingComplete, dynamicReattachTimeout,
                  dynamicContentObserver, dynamicContentObserveTarget, observing, timers,
                  inFlight, injections, seen >>

\* The re-injection timer fires: run() injects the panel, resets
\* annotatingComplete, starts the initial-retry timer and, on a
\* content-scoped page, creates and connects a new observer.
ReinjectFires ==
  /\ reinjectTimeout
  /\ reinjectTimeout' = FALSE
  /\ IF panel
     THEN UNCHANGED << panel, annotatingComplete, timers, dynamicContentObserver,
                       dynamicContentObserveTarget, observing, injections, seen >>
     ELSE /\ panel' = TRUE
          /\ annotatingComplete' = FALSE
          /\ timers' = [timers EXCEPT !.retry = @ + 1]
          /\ injections' = injections + 1
          /\ seen' = [seen EXCEPT !.finished = FALSE]
          /\ IF contentScoped
             THEN /\ dynamicContentObserveTarget' = TRUE
                  /\ dynamicContentObserver' = injections + 1
                  /\ observing' = observing \cup {injections + 1}
             ELSE UNCHANGED << dynamicContentObserveTarget, dynamicContentObserver, observing >>
  /\ UNCHANGED << dom, phase, anchorVars, markVars, loadVars, probeVars, raceVars,
                  contentScoped, dynamicReattachTimeout, inFlight >>

\* The host page changes the tree below the body while an observer is
\* connected: dynamicContentCallback finds a mutation that is not ours and
\* calls scheduleDynamicReattach.
PageMutates ==
  /\ observing # {}
  /\ \E s \in {scheduleDynamicReattach(annotatingComplete, dynamicReattachTimeout, timers,
                                       "page", seen.cause)} :
       /\ dynamicReattachTimeout' = s.timeout
       /\ timers' = s.timers
       /\ seen' = [seen EXCEPT !.cause = s.cause]
  /\ UNCHANGED << dom, phase, anchorVars, markVars, loadVars, probeVars, raceVars, panel,
                  contentScoped, reinjectTimeout, annotatingComplete, dynamicContentObserver,
                  dynamicContentObserveTarget, observing, inFlight, injections >>

\* runReattach(trigger) up to its await, with the timers t, the timeout
\* variable and the cause of the pending timer as the caller left them: the observer the variable holds is
\* disconnected when the target variable is set too; reattachHighlights then
\* clears the marks at once (changes: there were marks to clear) and an
\* observer that is still connected reports that change to the callback.
RunReattachStarts(timeout, t, cause, changes, ranByOwn) ==
  /\ inFlight < MaxRuns
  /\ inFlight' = inFlight + 1
  /\ \E left \in {IF dynamicContentObserver # 0 /\ dynamicContentObserveTarget
                  THEN observing \ {dynamicContentObserver} ELSE observing} :
       /\ observing' = left
       /\ dynamicContentObserver' =
            IF dynamicContentObserver # 0 /\ dynamicContentObserveTarget
            THEN 0 ELSE dynamicContentObserver
       /\ IF changes /\ left # {}
          THEN \E s \in {scheduleDynamicReattach(annotatingComplete, timeout, t, "own",
                                                 cause)} :
                 /\ dynamicReattachTimeout' = s.timeout
                 /\ timers' = s.timers
                 /\ seen' = [seen EXCEPT !.observed = TRUE, !.cause = s.cause,
                                         !.ranByOwn = ranByOwn]
          ELSE /\ dynamicReattachTimeout' = timeout
               /\ timers' = t
               /\ seen' = [seen EXCEPT !.cause = cause, !.ranByOwn = ranByOwn]
  /\ UNCHANGED << dom, phase, anchorVars, markVars, loadVars, probeVars, raceVars, panel,
                  contentScoped, reinjectTimeout, annotatingComplete,
                  dynamicContentObserveTarget, injections >>

\* an initial-retry timer fires: runReattach('initial retry')
RetryFires(changes) ==
  /\ timers.retry > 0
  /\ RunReattachStarts(dynamicReattachTimeout, [timers EXCEPT !.retry = @ - 1], seen.cause,
                       changes, seen.ranByOwn)

\* a mutation-triggered timer fires: the timeout variable is reset and
\* runReattach('mutation') is called
DynamicFires(changes) ==
  /\ timers.dynamic > 0
  /\ RunReattachStarts(FALSE, [timers EXCEPT !.dynamic = @ - 1], "none", changes,
                       seen.ranByOwn \/ seen.cause = "own")

\* reattachHighlights resumes after its awaits and draws the marks (changes:
\* at least one was drawn); an observer that is connected reports the change
\* to the callback before runReattach resumes; then the finally block of
\* runReattach runs.
RunReattachFinishes(changes) ==
  /\ inFlight > 0
  /\ inFlight' = inFlight - 1
  /\ \E s \in {IF changes /\ observing # {}
               THEN scheduleDynamicReattach(annotatingComplete, dynamicReattachTimeout,
                                            timers, "own", seen.cause)
               ELSE [timeout |-> dynamicReattachTimeout, timers |-> timers,
                     cause |-> seen.cause]} :
       /\ timers' = [s.timers EXCEPT !.dynamic = IF s.timeout THEN @ - 1 ELSE @]
       /\ seen' = [seen EXCEPT !.observed = @ \/ (changes /\ observing # {}),
                               !.cause = "none",
                               !.finished = TRUE]
  /\ annotatingComplete' = TRUE
  /\ dynamicReattachTimeout' = FALSE
  /\ dynamicContentObserveTarget' = FALSE
  /\ UNCHANGED << dom, phase, anchorVars, markVars, loadVars, probeVars, raceVars, panel,
                  contentScoped, reinjectTimeout, dynamicContentObserver, observing,
                  injections >>

NextScript ==
  \/ PanelRemoved
  \/ ReinjectFires
  \/ PageMutates
  \/ \E changes \in BOOLEAN : RetryFires(changes)
  \/ \E changes \in BOOLEAN : DynamicFires(changes)
  \/ \E changes \in BOOLEAN : RunReattachFinishes(changes)

SpecScript == InitScript /\ [][NextScript]_vars

----------------------------------------------------------------------------
(* Properties of Anchorer.anchor, read in the state a resolution leaves *)

\* the text of a range and the stored exact text agree up to leading and
\* trailing whitespace and collapsed whitespace runs
Agrees(r) ==
  normalizeWhitespace(RangeText(dom, r)) = normalizeWhitespace(target.textQuote.exact)

\* what the structural and the position selector resolve to before any check
\* against the quote or for a collapsed range
RawRange ==
  IF target.range.present THEN anchorFromRangeSelector(dom, target.range, Root, NoQuote)
  ELSE NullRange
RawPosition ==
  IF target.textPosition.present
  THEN offsetsToRange(dom, snap.segments, target.textPosition.start, target.textPosition.end)
  ELSE NullRange

\* C1: whenever anchor returns success for a Target that carries a quote
\* selector, the text of the returned range equals the stored exact text up to
\* leading/trailing whitespace and collapsed whitespace runs (no range at
\* stale offsets is returned as success).
C1_SuccessTextIsExact ==
  (phase = "resolved" /\ result.ok /\ target.textQuote.present) => Agrees(result.range)

StrategyOrder == << "range", "position", "quote-context", "quote-only" >>
OrderOf(name) == CHOOSE i \in 1..Len(StrategyOrder) : StrategyOrder[i] = name

\* what each strategy yields on its own in the current state, in the fixed order
Proposals ==
  << Strategy1(dom, Root, target), Strategy2(dom, snap, target),
     Strategy3(dom, snap, target), Strategy4(dom, snap, target) >>

\* C2: the strategies are tried in the fixed order range, position,
\* quote-context, quote-only; a strategy is entered only when every earlier
\* one failed or was skipped; the reported strategy is the first one that
\* yields a non-collapsed range, so the structural strategy wins whenever it
\* succeeds on its own; the result is a failure only when all four fail.
C2_FixedOrder ==
  phase = "resolved" =>
    LET won == {i \in 1..4 : Proposals[i] # NullRange}
        tried == result.tried
    IN  /\ result.ok <=> won # {}
        /\ result.ok => /\ result.strategy = StrategyOrder[SetMin(won)]
                        /\ tried # << >>
                        /\ tried[Len(tried)] = result.strategy
        /\ \A i \in 1..Len(tried) :
             /\ tried[i] \in {StrategyOrder[j] : j \in 1..4}
             /\ \A j \in 1..(i - 1) : OrderOf(tried[j]) < OrderOf(tried[i])
             /\ \A k \in 1..(OrderOf(tried[i]) - 1) : Proposals[k] = NullRange

\* all three selectors are stored, each would succeed on its own, and the
\* structural strategy is the one reported
C2_AllWouldSucceed ==
  /\ phase = "resolved"
  /\ edits > 0
  /\ \A i \in 1..4 : Proposals[i] # NullRange
  /\ result.ok /\ result.strategy = "range"

\* C3: with a quote selector present, a range the structural or the position
\* selector resolves to whose text disagrees with the exact text is rejected:
\* the resolver does not report success by that strategy.
C3_DisagreeingMatchRejected ==
  (phase = "resolved" /\ result.ok /\ target.textQuote.present) =>
    /\ (result.strategy = "range" => Agrees(RawRange))
    /\ (result.strategy = "position" => Agrees(RawPosition))

IsFailure(res) == ~res.ok /\ res.error = AllFailedError /\ res.range = NullRange

NoStructuralOrPositionMatch ==
  Strategy1(dom, Root, target) = NullRange /\ Strategy2(dom, snap, target) = NullRange

\* C4: if the stored exact text does not occur in the current document text
\* (not even up to leading/trailing whitespace and collapsed whitespace runs),
\* or there is no quote selector at all, and neither the structural nor the
\* position selector yields a match, the result is the failure that names all
\* four strategies, with no range.
C4_AbsentExactFails ==
  (/\ phase = "resolved"
   /\ \/ ~target.textQuote.present
      \/ ~Occurs(normalizeWhitespace(snap.text), normalizeWhitespace(target.textQuote.exact))
   /\ NoStructuralOrPositionMatch)
    => IsFailure(result)

\* the occurrence m of the exact text has the stored context around it: the
\* Len(prefix) characters before it trimmed-equal the prefix and the
\* Len(suffix) characters after it trimmed-equal the suffix
ContextAgrees(m) ==
  LET q == target.textQuote
      before_ == Slice(snap.text, Max(0, m.start - Len(q.prefix)), m.start)
      after_ == Slice(snap.text, m.end, Min(Len(snap.text), m.end + Len(q.suffix)))
  IN  Trim(before_) = Trim(q.prefix) /\ Trim(after_) = Trim(q.suffix)

\* C5: when the exact text occurs several times and at least one occurrence
\* is both preceded by the stored prefix and followed by the stored suffix,
\* disambiguation (after the structural or position strategy, or inside the
\* quote-only strategy) picks an occurrence from that subset.
C5_PicksFromContextSubset ==
  (/\ phase = "resolved" /\ result.ok /\ target.textQuote.present
   /\ result.strategy \in {"range", "position", "quote-only"})
    => LET ms == findAllExactMatches(snap.text, target.textQuote.exact)
           withContext == {i \in 1..Len(ms) : ContextAgrees(ms[i])}
           got == rangeToOffsets(dom, snap.segments, result.range)
       IN  (Len(ms) >= 2 /\ withContext # {}) => \E i \in withContext : ms[i] = got

\* C6: no collapsed range is reported as success: every success carries a
\* range whose start lies strictly before its end, and a structural or
\* position selector that resolves to a collapsed range (or to none) makes
\* its strategy fail, so that strategy is not the one reported.
C6_NeverCollapsed ==
  phase = "resolved" =>
    /\ result.ok => /\ result.range # NullRange
                    /\ BpLess(dom, RStart(result.range), REnd(result.range))
    /\ (target.range.present
        /\ Collapsed(anchorFromRangeSelector(dom, target.range, Root, ExpectedQuoteOf(target))))
         => result.strategy # "range"
    /\ (target.textPosition.present /\ Collapsed(RawPosition))
         => result.strategy # "position"

\* the structural selector resolves to a collapsed range, its strategy fails
\* and the chain goes on to a later strategy that succeeds
C6_CollapsedFallsThrough ==
  /\ phase = "resolved"
  /\ target.range.present
  /\ anchorFromRangeSelector(dom, target.range, Root, ExpectedQuoteOf(target)) # NullRange
  /\ Collapsed(anchorFromRangeSelector(dom, target.range, Root, ExpectedQuoteOf(target)))
  /\ result.ok /\ result.strategy # "range"

----------------------------------------------------------------------------
(* Properties of highlightRange, read in the state a call leaves *)

\* the nodes the last call created, and the markers among them
NewNodes == DOMAIN dom \ DOMAIN before
NewMarkers == {n \in NewNodes : IsEl(dom, n) /\ dom[n].cls = HIGHLIGHT_CLASS}

\* the elements that were in the tree below Root before the last call
OldElements == {n \in DOMAIN before : IsEl(before, n) /\ IsAncestorOrSelf(before, Root, n)}

\* element e has text that is not all whitespace
HasInk(d, e) == Trim(ConcatData(d, AllText(d, e))) # << >>

\* the elements the range of the last call fully contains, outermost ones only
OutermostContained ==
  {e \in OldElements \ {Root} :
     /\ HasInk(before, e)
     /\ rangeFullyContainsElement(before, hrange, e)
     /\ ~rangeFullyContainsElement(before, hrange, before[e].parent)}

\* C8: an element the range fully contains is marked in place: the mark class
\* and the annotation id are set on the element itself, and nothing is
\* inserted inside it (its subtree is not descended into).
C8_ContainedElementTaggedInPlace ==
  (phase = "marked" /\ ~Collapsed(hrange)) =>
    \A e \in OutermostContained :
      /\ dom[e].cls = HIGHLIGHT_CLASS
      /\ dom[e].ann = hid
      /\ dom[e].kids = before[e].kids

RECURSIVE FlatKids(_, _, _, _)
\* the children kids[i..] of an element as a reader meets them: the characters
\* of a text node, the characters inside a node of fresh (a marker just
\* inserted), and one entry for every other element
FlatKids(d, kids, i, fresh) ==
  IF i > Len(kids) THEN << >>
  ELSE (IF IsText(d, kids[i])
        THEN [j \in 1..NodeLen(d, kids[i]) |-> [el |-> 0, ch |-> d[kids[i]].data[j]]]
        ELSE IF kids[i] \in fresh
        THEN [j \in 1..Len(ConcatData(d, AllText(d, kids[i]))) |->
                [el |-> 0, ch |-> ConcatData(d, AllText(d, kids[i]))[j]]]
        ELSE << [el |-> kids[i], ch |-> ""] >>)
       \o FlatKids(d, kids, i + 1, fresh)

\* C9: marking never wraps or moves an element: every node highlightRange
\* creates is a marker span or a text node; a marker holds exactly one text
\* node and no element; with each marker read as the text it holds, every
\* pre-existing element has the same parent and the same sequence of text and
\* child elements as before (so a marker stands where part of a text leaf
\* stood, and no pre-existing element lies inside a marker).
C9_MarkersWrapTextOnly ==
  phase = "marked" =>
    /\ \A n \in NewNodes : IsEl(dom, n) => n \in NewMarkers
    /\ \A m \in NewMarkers :
         /\ dom[m].tag = "span"
         /\ dom[m].ann = hid
         /\ Len(dom[m].kids) = 1
         /\ IsText(dom, dom[m].kids[1])
         /\ dom[m].parent \in OldElements
    /\ \A e \in OldElements :
         /\ dom[e].parent = before[e].parent
         /\ dom[e].tag = before[e].tag
         /\ FlatKids(dom, dom[e].kids, 1, NewMarkers) = FlatKids(before, before[e].kids, 1, {})
         /\ \A m \in NewMarkers : ~IsAncestorOrSelf(dom, m, e)

\* a marker was inserted beside a pre-existing element, in place of a part of
\* a text node
C9_MarkerBesideElement ==
  /\ phase = "marked"
  /\ marked
  /\ \E m \in NewMarkers :
       LET kids == dom[dom[m].parent].kids
       IN  /\ \E i \in 1..Len(kids) : kids[i] \in OldElements
           /\ \E i \in 1..Len(kids) : kids[i] \in NewNodes /\ IsText(dom, kids[i])

\* every slice of text the range of the last call cuts out of a text node is
\* empty or whitespace only
AllSlicesBlank ==
  \A t \in {n \in DOMAIN before : IsText(before, n) /\ Attached(before, n)} :
    Trim(Slice(before[t].data, TextPart(before, t, hrange).lo,
               TextPart(before, t, hrange).hi)) = << >>

\* C10: on a range that is collapsed or whose text slices are all empty or
\* whitespace only, highlightRange inserts no marker, leaves the tree
\* unchanged and returns false; it returns true exactly when it inserted at
\* least one marker.
C10_NothingMarkable ==
  phase = "marked" =>
    /\ (Collapsed(hrange) \/ AllSlicesBlank) => (~marked /\ dom = before)
    /\ marked <=> NewMarkers # {}

\* a range that is not collapsed and spans whitespace only, in a text node
\* that also holds other text, was handed to highlightRange
C10_WhitespaceOnlyRange ==
  /\ phase = "marked"
  /\ ~Collapsed(hrange)
  /\ RangeText(before, hrange) # << >>
  /\ AllSlicesBlank
  /\ \E t \in DOMAIN before :
       IsText(before, t) /\ hrange.sc = t /\ hrange.ec = t /\ Trim(before[t].data) # << >>
  /\ ~marked

----------------------------------------------------------------------------
(* Properties of clearHighlights, AnnotationBuilder.done and runLoad *)

\* the contents of the text leaves below Root, in document order
TextLeaves(d) ==
  LET ts == AllTextKids(d, d[Root].kids, 1)
  IN  [i \in 1..Len(ts) |-> d[ts[i]].data]

\* the nodes below Root that carry the mark class or an annotation id
Tagged(d) == {n \in NodesUnder(d, Root) : d[n].cls = HIGHLIGHT_CLASS \/ d[n].ann # 0}

\* C11: clearHighlights undoes marking: once the marks made so far have been
\* cleared, Root has the same text leaves (same number, same contents, same
\* order) as before any marking, and no node below Root carries the mark
\* class or an annotation id.
C11_ClearRestoresTextLeaves ==
  loads >= 1 =>
    /\ TextLeaves(cleared) = TextLeaves(pristine)
    /\ Tagged(cleared) = {}

\* the annotations a batch considers: those of the page, then those of a
\* content block found below Root
Considered ==
  SelectSeq(store, LAMBDA a : a.source = PageUrl)
  \o SelectSeq(store, LAMBDA a : a.source # PageUrl /\ contentUrlToRoot(dom, Root, a.source) # 0)

\* the annotation ids that have a marker in the tree
MarkedIds ==
  {dom[n].ann : n \in {m \in NodesUnder(dom, Top) : dom[m].cls = HIGHLIGHT_CLASS}}

\* C12: a batch is never cut short by an annotation that cannot be anchored
\* or that yields nothing markable: when runLoad returns, every annotation
\* considered was resolved, in order; anchored is the number of annotations
\* that got a mark in the tree, and anchored <= total = number of annotations
\* considered.
C12_BatchSkipsFailures ==
  phase = "loaded" =>
    /\ ret.returned
    /\ ret.annotations = Considered
    /\ ret.total = Len(Considered)
    /\ Len(log) = ret.total
    /\ \A i \in 1..Len(log) : log[i].id = ret.annotations[i].id
    /\ \A i \in 1..Len(log) : log[i].marked <=> log[i].id \in MarkedIds
    /\ ret.anchored = Cardinality(MarkedIds)
    /\ ret.anchored <= ret.total

\* a batch returned in which an annotation got no mark (it was not anchored,
\* or its range held nothing markable) and a later one was marked
C12_LaterOneMarked ==
  /\ phase = "loaded"
  /\ ret.anchored < ret.total
  /\ \E i, j \in 1..Len(log) : i < j /\ ~log[i].marked /\ log[j].marked

\* C13: every resolution of a batch uses a snapshot built after the most
\* recent change of the tree: at the head of the page-level loop the current
\* snapshot is the one build(root) yields on the tree as it is now, and every
\* resolution made so far ran against such a snapshot.
C13_SnapshotIsFresh ==
  /\ (phase = "loading" /\ todo.page # << >>) => ctx = build(dom, Root)
  /\ \A i \in 1..Len(log) : log[i].fresh

\* an annotation is about to be resolved after an earlier one of the same
\* batch was marked, with a snapshot other than the one the batch started with
C13_ResolvedAfterMark ==
  /\ phase = "loading"
  /\ todo.page # << >>
  /\ \E i \in 1..Len(log) : log[i].marked
  /\ ctx # build(cleared, Root)

\* range r has a boundary that does not lie below Root
OutsideRoot(d, r) == ~IsAncestorOrSelf(d, Root, r.sc) \/ ~IsAncestorOrSelf(d, Root, r.ec)

\* C18: creating an annotation from a range with a boundary outside the root
\* fails with an error before anything else happens: done() rejects, the
\* store receives no save and the tree gets no marker.
C18_OutsideRootRejected ==
  [][\A r \in Selections(dom) :
       (OutsideRoot(dom, r) /\ Done(r)) =>
         (created' = "rejected" /\ store' = store /\ dom' = dom)]_vars

\* a creation was rejected after an earlier one had been saved and marked;
\* the tree holds the marks of the earlier one only
C18_CreationRejected ==
  /\ created = "rejected"
  /\ Len(store) = 1
  /\ store[1].id = 1
  /\ MarkedIds = {1}

----------------------------------------------------------------------------
(* Properties of the mapper and of toTextQuoteSelector *)

\* both boundaries of r lie in the text node of one segment
InOneSegment(r) ==
  /\ r.sc = r.ec
  /\ r.so <= r.eo
  /\ \E i \in 1..Len(snap.segments) : snap.segments[i].node = r.sc

\* C14: mapper round trip: for a range R with both boundaries inside the same
\* text segment, offsetsToRange(rangeToOffsets(R)) is a range (not null) with
\* the same text and the same flat offsets as R.
C14_MapperRoundTrip ==
  (call.fn = "roundTrip" /\ InOneSegment(call.range)) =>
    /\ out.range # NullRange
    /\ RangeText(dom, out.range) = RangeText(dom, call.range)
    /\ rangeToOffsets(dom, snap.segments, out.range) = out.offsets

\* C15: the segment table of build(root) is sorted, non-overlapping and
\* partitions the document text: the first segment starts at 0, every segment
\* starts where the previous one ends, the last one ends at len(text), and
\* text[start:end] of a segment is the text of its leaf node.
C15_SegmentsPartitionText ==
  phase = "built" =>
    LET segs == snap.segments
    IN  /\ segs = << >> => snap.text = << >>
        /\ segs # << >> => (segs[1].start = 0 /\ segs[Len(segs)].end = Len(snap.text))
        /\ \A i \in 2..Len(segs) : segs[i].start = segs[i - 1].end
        /\ \A i \in 1..Len(segs) :
             /\ segs[i].start <= segs[i].end
             /\ IsText(dom, segs[i].node)
             /\ Slice(snap.text, segs[i].start, segs[i].end) = dom[segs[i].node].data

\* the parsed extraction and the live walk differ in segment count, and the
\* table was rebuilt from the live walk
C15_RebuiltFromLiveWalk ==
  /\ phase = "built"
  /\ Len(walkParsedText(dom, Root)) # Len(walkDomTextNodes(dom, Root))
  /\ Len(snap.segments) = Len(walkDomTextNodes(dom, Root))
  /\ Len(snap.segments) >= 3

\* boundary (node, offset) lies in a segment that owns the flat offset o
PlacedAt(node, offset, o) ==
  \E i \in 1..Len(snap.segments) :
    /\ snap.segments[i].node = node
    /\ snap.segments[i].start <= o /\ o <= snap.segments[i].end
    /\ offset = o - snap.segments[i].start

\* C16: offsetsToRange(start, end) is null whenever start or end lies outside
\* the document text (start < 0, start > len(text) or end > len(text)); for
\* start <= end inside the text a range it returns has each boundary in a
\* segment that owns the offset.
C16_OutOfBoundsIsNull ==
  call.fn = "offsetsToRange" =>
    /\ (call.start < 0 \/ call.start > Len(snap.text) \/ call.end > Len(snap.text))
         => out.range = NullRange
    /\ (0 <= call.start /\ call.start <= call.end /\ call.end <= Len(snap.text)
        /\ out.range # NullRange)
         => /\ PlacedAt(out.range.sc, out.range.so, call.start)
            /\ PlacedAt(out.range.ec, out.range.eo, call.end)

\* C17: for 0 <= start <= end <= len(text), toTextQuoteSelector returns exact
\* = text[start:end], prefix = the min(p, start) characters before start and
\* suffix = the min(s, len(text) - end) characters after end, so that
\* prefix + exact + suffix is the piece of the text that begins at start -
\* len(prefix).
C17_QuoteIsClippedWindow ==
  (call.fn = "toTextQuoteSelector"
   /\ 0 <= call.start /\ call.start <= call.end /\ call.end <= Len(snap.text)) =>
    LET text == snap.text
        k == Min(call.prefixLen, call.start)
        m == Min(call.suffixLen, Len(text) - call.end)
        q == out.quote
    IN  /\ q.exact = SubSeq(text, call.start + 1, call.end)
        /\ q.prefix = SubSeq(text, call.start - k + 1, call.start)
        /\ q.suffix = SubSeq(text, call.end + 1, call.end + m)
        /\ Len(q.prefix) = k /\ Len(q.suffix) = m
        /\ q.prefix \o q.exact \o q.suffix
             = SubSeq(text, call.start - Len(q.prefix) + 1, call.end + Len(q.suffix))

\* a quote selector was built with the default context length, its prefix
\* clipped at the start of the text and its suffix at the end
C17_ClippedBothSides ==
  /\ call.fn = "toTextQuoteSelector"
  /\ call.prefixLen = TEXT_QUOTE_CONTEXT_LENGTH /\ call.suffixLen = TEXT_QUOTE_CONTEXT_LENGTH
  /\ 0 < call.start /\ call.start < call.end /\ call.end < Len(snap.text)
  /\ Len(out.quote.prefix) = call.start
  /\ Len(out.quote.suffix) = Len(snap.text) - call.end

----------------------------------------------------------------------------
(* Properties of Anchorer.anchor after strategies 1 and 2, and of the
   round trip through buildSelectorsFromRange *)

\* ranges a and b cover the same flat offsets of the current snapshot
SameOffsets(a, b) ==
  rangeToOffsets(dom, snap.segments, a) = rangeToOffsets(dom, snap.segments, b)

\* C19: a range that the Structural or the Position strategy produced and
\* that passed quote validation is final: anchor returns it with unchanged
\* offsets, with no further disambiguation, even when the exact text occurs
\* several times in the document.
C19_ValidatedMatchIsFinal ==
  (phase = "resolved" /\ result.ok) =>
    /\ result.strategy = "range" => SameOffsets(result.range, Strategy1(dom, Root, target))
    /\ result.strategy = "position" => SameOffsets(result.range, Strategy2(dom, snap, target))

\* the Target is all that buildSelectorsFromRange built for a range that
\* covers at least one character of the document text
BuiltFromRange ==
  /\ target.range.present /\ target.textPosition.present /\ target.textQuote.present
  /\ ~Collapsed(origin.range)
  /\ origin.start < origin.end

\* C20: create-then-resolve round trip: on a document unchanged since
\* creation, resolving the Target that buildSelectorsFromRange built for a
\* non-collapsed range R, for any prefixLen and suffixLen, returns success
\* with a range that has the same flat offsets as R, also when the exact text
\* occurs several times in the document.
C20_CreateThenResolve ==
  (phase = "resolved" /\ edits = 0 /\ BuiltFromRange) =>
    /\ result.ok
    /\ rangeToOffsets(dom, snap.segments, result.range)
         = [start |-> origin.start, end |-> origin.end]

----------------------------------------------------------------------------
(* Properties of the quote strategies and of pickBestMatch *)

\* the stored quote, joined as it was stored
StoredNeedle == target.textQuote.prefix \o target.textQuote.exact \o target.textQuote.suffix

\* C21: strategy 3 searches the document text for the literal concatenation
\* prefix+exact+suffix as stored; when that string occurs exactly once, at
\* index i, it returns the offsets [i + len(prefix), i + len(prefix) +
\* len(exact)), for every stored prefix and suffix, including ones that end
\* or begin with whitespace.
C21_SingleHitOfStoredContext ==
  (call.fn = "anchorFromQuoteContext"
   /\ Len(findAllNeedleMatches(snap.text, StoredNeedle)) = 1) =>
    LET i == IndexOf(snap.text, StoredNeedle, 0)
        p == Len(target.textQuote.prefix)
    IN  out.offsets = [start |-> i + p, end |-> i + p + Len(target.textQuote.exact)]

\* the candidates of the last pickBestMatch call and, doubled, their scores
\* and their distances to the position hint
Candidates ==
  pickCandidates(findAllExactMatches(snap.text, target.textQuote.exact), snap.text,
                 target.textQuote.prefix, target.textQuote.suffix)
ScoreOf(m) ==
  score2(snap.text, m, HintOf(target), target.textQuote.prefix, target.textQuote.suffix)
DistanceOf(m) == Abs((m.start + m.end) - 2 * HintOf(target))

\* the first candidate of cs, in document order, that is nearest to the
\* hint; the first of cs when there is no hint
NearestFirst(cs) ==
  IF HintOf(target) = NoHint THEN cs[1]
  ELSE LET nearest == SetMin({DistanceOf(cs[i]) : i \in 1..Len(cs)})
       IN  cs[SetMin({i \in 1..Len(cs) : DistanceOf(cs[i]) = nearest})]

\* C22: in pickBestMatch, when the highest score is shared by several
\* candidates, or when all scores are zero, the candidate nearest to the
\* position hint is chosen, and among equally near candidates (or when no
\* hint exists) the first one in document order.
C22_TieGoesToNearest ==
  call.fn = "pickBestMatch" =>
    LET g(cs) ==
          LET top == SetMax({ScoreOf(cs[i]) : i \in 1..Len(cs)})
              tied == SelectSeq(cs, LAMBDA m : ScoreOf(m) = top)
          IN  (Len(tied) > 1 \/ top = 0) => out.offsets = NearestFirst(tied)
    IN  g(Candidates)

\* the needle the last search looked for verbatim
NeedleOf(fn) ==
  IF fn = "anchorFromQuoteContext"
  THEN Trim(target.textQuote.prefix) \o Trim(target.textQuote.exact) \o Trim(target.textQuote.suffix)
  ELSE Trim(target.textQuote.exact)

\* the last search was strategy 3 or 4 and did not find its needle verbatim
SearchedFuzzily ==
  /\ call.fn \in {"anchorFromQuoteContext", "anchorFromQuoteOnly"}
  /\ Trim(target.textQuote.exact) # << >>
  /\ ~Occurs(snap.text, NeedleOf(call.fn))

----------------------------------------------------------------------------
(* Properties of rangeToOffsets and of the structural selector *)

\* the flat offset of a boundary given as (element, child index): the number
\* of characters of the document text in text leaves before the boundary
FlatOffsetOf(p) ==
  LET after == {i \in 1..Len(snap.segments) : ~BpLess(dom, Bp(snap.segments[i].node, 0), p)}
  IN  IF after = {} THEN Len(snap.text) ELSE snap.segments[SetMin(after)].start

\* C25: rangeToOffsets resolves every boundary given as (element, child
\* index) under root to the flat offset of the first text position at or
\* after it (start) or of the last text position at or before it (end), for
\* every child index 0..childCount, also when the child next to the boundary
\* or the whole element contains no text.
C25_ElementBoundaryOffsets ==
  (call.fn = "roundTrip" /\ IsEl(dom, call.range.sc) /\ IsEl(dom, call.range.ec)) =>
    /\ out.offsets.start = FlatOffsetOf(RStart(call.range))
    /\ out.offsets.end = FlatOffsetOf(REnd(call.range))

\* C26: the structural selector stores for each boundary the path of its
\* containing element and the character offset of the boundary within that
\* element's text, so that on an unchanged tree anchorFromRangeSelector(
\* toRangeSelector(R, root), root) returns a range with the same text as R,
\* for boundaries inside a text node and for boundaries given as (element,
\* child index).
C26_StructuralRoundTrip ==
  call.fn = "structuralRoundTrip" =>
    /\ out.range # NullRange
    /\ RangeText(dom, out.range) = RangeText(dom, call.range)

----------------------------------------------------------------------------
(* Properties of highlightRange: what is marked, and in which order *)

\* the positions, in the text of all Text nodes of d in document order, of the
\* characters for which inside(text node, offset in it) holds
Positions(d, inside(_, _)) ==
  LET ts == AllText(d, Top)
      startOf(k) == Len(ConcatData(d, SubSeq(ts, 1, k - 1)))
  IN  UNION {{startOf(k) + i : i \in {j \in 1..NodeLen(d, ts[k]) : inside(ts[k], j)}} :
             k \in 1..Len(ts)}

\* text node t of d lies in a marker that carries the annotation id
InMarker(d, t, id) ==
  \E m \in DOMAIN d :
    /\ IsEl(d, m) /\ d[m].cls = HIGHLIGHT_CLASS /\ d[m].ann = id
    /\ IsAncestorOrSelf(d, m, t)

\* the characters inside markers carrying the id of the last call
MarkedPositions ==
  LET inside(t, j) == InMarker(dom, t, hid)
  IN  Positions(dom, inside)

\* the characters of the range of the last call that lie in a text leaf whose
\* slice inside the range is not whitespace only
MarkablePositions ==
  LET inside(t, j) ==
        LET part == TextPart(before, t, hrange)
        IN  /\ part.lo < j /\ j <= part.hi
            /\ Trim(Slice(before[t].data, part.lo, part.hi)) # << >>
  IN  Positions(before, inside)

RECURSIVE WrappedDownTo(_, _, _, _)
\* the tree when the slices segs[i..] have been rewritten, the last one first
WrappedDownTo(d, segs, i, annotationId) ==
  IF i > Len(segs) THEN d
  ELSE wrapTextSegment(WrappedDownTo(d, segs, i + 1, annotationId), segs[i], annotationId).dom

\* the slices the last call collected
CollectedSlices ==
  LET root == commonAncestorContainer(before, hrange)
  IN  collectHighlightRanges(before, hrange,
        IF IsText(before, root) /\ before[root].parent # 0 THEN before[root].parent ELSE root)

\* C24: after highlightRange(R, id) returned true, the characters inside
\* markers carrying id are exactly the characters of R that lie in text
\* leaves whose slice inside R is not whitespace only; the slices are
\* rewritten in reverse document order, and when a slice is rewritten its text
\* node is still attached to the tree with its original content.
C24_MarkedIsExactlyTheRange ==
  (phase = "marked" /\ marked) =>
    /\ MarkedPositions = MarkablePositions
    /\ LET f(segs) ==
             /\ dom = WrappedDownTo(before, segs, 1, hid)
             /\ \A i \in 1..Len(segs) :
                  LET d == WrappedDownTo(before, segs, i + 1, hid)
                  IN  /\ Attached(d, segs[i].node)
                      /\ d[segs[i].node].data = before[segs[i].node].data
             /\ \A i \in 1..(Len(segs) - 1) :
                  BpLess(before, Bp(segs[i].node, 0), Bp(segs[i + 1].node, 0))
       IN  f(CollectedSlices)

\* a call marked parts of two text leaves and cut both of them: characters of
\* the first leaf before the range and of the last leaf after it stay unmarked
C24_TwoLeavesCut ==
  /\ phase = "marked"
  /\ marked
  /\ Len(CollectedSlices) >= 2
  /\ IsText(before, hrange.sc) /\ hrange.so > 0
  /\ IsText(before, hrange.ec) /\ hrange.eo < NodeLen(before, hrange.ec)
  /\ MarkedPositions # {}

\* the elements the extractor leaves out of the document text
Excluded(d) == {e \in DOMAIN d : IsEl(d, e) /\ d[e].tag \in NonRendering}

\* C29: highlightRange never inserts a marker inside a subtree that the
\* extractor excludes from the document text (script, style, noscript):
\* every character inside a marker is a character of build(root).text, and
\* the contents of excluded subtrees are left unchanged.
C29_NoMarkerInExcludedSubtree ==
  phase = "marked" =>
    /\ \A m \in NewMarkers : \A e \in Excluded(dom) : ~IsAncestorOrSelf(dom, e, m)
    /\ \A e \in Excluded(before) :
         /\ dom[e].kids = before[e].kids
         /\ \A k \in 1..Len(before[e].kids) : dom[before[e].kids[k]] = before[before[e].kids[k]]

----------------------------------------------------------------------------
(* The document text under marking and clearing *)

\* C28: the document text is invariant under marking and clearing: after any
\* sequence of highlightRange and clearHighlights calls on the root,
\* build(root).text equals build(root).text before the sequence, although the
\* number of text leaves (segments) may change.
C28_TextUnchangedByMarks ==
  \E text \in {build(pristine, Root).text} :
    /\ build(dom, Root).text = text
    /\ loads >= 1 => build(cleared, Root).text = text

\* marks were drawn, cleared and drawn again by a batch, and the tree now has
\* more text leaves than it had before any mark
C28_RedrawnWithMoreLeaves ==
  /\ phase = "loaded"
  /\ \E i \in 1..Len(log) : log[i].marked
  /\ Len(build(cleared, Root).segments) > Len(build(pristine, Root).segments)
  /\ Len(build(dom, Root).segments) > Len(build(cleared, Root).segments)

----------------------------------------------------------------------------
(* Properties of the content script's reattach scheduling *)

\* C30: a reattach run changes the tree only while no dynamic-content
\* observer is connected, so that no change of a reattach run reaches the
\* observer callback.
C30_ReattachChangesUnobserved == ~seen.observed

----------------------------------------------------------------------------
(* Properties of load batches and creations that overlap *)

RECURSIVE MarkersAround(_, _, _)
\* number of markers of annotation id among n and its ancestors
MarkersAround(d, n, id) ==
  IF n = 0 THEN 0
  ELSE (IF IsEl(d, n) /\ d[n].cls = HIGHLIGHT_CLASS /\ d[n].ann = id THEN 1 ELSE 0)
       + MarkersAround(d, d[n].parent, id)

\* every batch that started and the creation, if any, have run to their end
AllFinished ==
  /\ \A b \in Batches : procs[b].pc \in {"idle", "finished"}
  /\ builder.pc \in {"none", "rejected", "done"}

\* C23: once every load batch and the creation have finished, no text leaf
\* under the root is wrapped by more than one marker of the same annotation.
C23_NoLeafMarkedTwice ==
  AllFinished =>
    \A t \in {n \in NodesUnder(dom, Root) : IsText(dom, n)} :
      \A id \in 1..MaxStored : MarkersAround(dom, t, id) <= 1

====
